---- MODULE Spec2Model ----
(***************************************************************************)
(* Recording/snapshot session controller of the webcam viewer.             *)
(*                                                                         *)
(* The Pipeline revision (src/src/pipeline.rs driven by src/src/app.rs and *)
(* src/src/headerbar.rs) is specified by Spec / FairSpec (recording        *)
(* session), SpecSnap / FairSpecSnap (snapshot session, countdown and      *)
(* settings), SpecApi (Pipeline::start and Pipeline::stop called           *)
(* directly), SpecEos (recording session with a video source that ends its *)
(* stream), SpecSettings (settings dialog and settings file), SpecNames    *)
(* (output file names computed from every settings file that parses) and   *)
(* SpecFiles (snapshots and their files with the wall clock running).      *)
(* All specifications share the variables; all but SpecNames share Init.   *)
(*                                                                         *)
(* RefCells: a handler is a sequence of borrow and release events, with    *)
(* the handlers it re-enters inlined; borrowError records a conflict.      *)
(*                                                                         *)
(* Threads: the GTK main loop (UI thread) runs one handler at a time; its  *)
(* position inside Pipeline::start_recording is uiPc.  The idle probe runs *)
(* on a streaming thread and the call_async closures on worker threads, so *)
(* they interleave with the steps of a running UI handler.                 *)
(*                                                                         *)
(* binState[b] is the state last requested for bin b with set_state.       *)
(***************************************************************************)
EXTENDS Integers, Sequences, FiniteSets, TLC

MaxBins == 2          \* recording sub-graphs built during one run
MaxFaults == 2        \* failures injected by the environment during one run
MaxProbes == 2        \* idle probes installed on one tee pad (App revision)
MaxTimer == 3         \* largest timer length found in a valid settings file
MaxPresses == 2       \* snapshot requests made during one run
MaxCalls == 3         \* direct calls of Pipeline::start and Pipeline::stop during one run

Bins == 1..MaxBins
None == 0             \* Option::None of recording_bin
NoPeer == -1          \* a tee source pad that is not linked
PreviewSink == 0      \* sink pad of the preview branch (queue ! videoconvert ! gtksink)
DisplaySink == -2      \* the display sink (gtksink name=sink) as the source of a message
PreviewPad == 0       \* tee source pad of the preview branch
Pads == 0..MaxBins    \* pad b (b > 0) is the request pad obtained for bin b
Snaps == 1..MaxPresses \* snapshot files, in the order take_snapshot creates them
DefaultTimerLength == 3 \* Settings::default().timer_length
SpinMax == 15           \* upper end of the range of the timer spin button

VARIABLES
  running,        \* process alive and on_shutdown not yet run
  activated,      \* main window shown (on_activate has run)
  pipelineState,  \* state of the top-level gst::Pipeline
  recording_bin,  \* PipelineInner.recording_bin
  nextBin,        \* next sub-graph that parse_bin_from_description creates
  binState,       \* per sub-graph: "None" (not built), "Playing", "Null", "Dropped"
  inPipeline,     \* sub-graphs currently added to the pipeline
  teePads,        \* source pads the tee currently has
  padPeer,        \* per tee source pad: the sink it is linked to
  probes,         \* per tee pad: idle probes installed and not yet fired
  eosAsync,       \* per sub-graph: call_async closures that will send EOS
  removeAsync,    \* per sub-graph: call_async closures that will remove it
  eosState,       \* per sub-graph: "none", "draining" (EOS received), "posted"
  bus,            \* messages posted on the pipeline bus, not yet dispatched
  uiPc,           \* position of the UI thread
  curBin,         \* local variable bin of the running start_recording
  startResult,    \* Result returned by the last start_recording
  recordActive,   \* record toggle button: property active
  recordChecked,  \* record toggle button: state flag CHECKED
  recordAction,   \* stored state of the stateful action "record"
  dialogs,        \* open error dialogs, oldest first
  faults,         \* failures injected so far
  wasLinked,      \* history: sub-graphs whose link to the tee succeeded
  stopRequested,  \* history: sub-graphs for which stop_recording installed a probe
  eosHandled,     \* history: sub-graphs whose forwarded EOS was dispatched
  probeCount,     \* history: idle probes installed per tee pad
  releaseCount,   \* history: release_request_pad calls per tee pad
  eosCount,       \* history: EOS events sent per sub-graph
  settingsFile,   \* the settings file: status "missing", "corrupt" or "valid", and its timer_length
  lastSample,     \* the display sink has a last-sample
  snapshotActive, \* snapshot toggle button: property active
  snapshotChecked, \* snapshot toggle button: state flag CHECKED
  snapshotAction, \* stored state of the stateful action "snapshot"
  timer,          \* AppInner.timer (App revision: AppInner.timeout) is Some
  remaining,      \* SnapshotTimer.remaining (App revision: remaining_secs_before_snapshot)
  tickSources,    \* timeout sources registered with the main loop
  overlayVisible, \* countdown label of the overlay is visible
  overlayText,    \* number shown by the countdown label
  snapState,      \* per snapshot file: "none", "converting", "written", "conv_failed", "write_failed"
  nextSnap,       \* next snapshot file that take_snapshot creates
  presses,        \* history: snapshot requests (toggle pressed) so far
  snapCalls,      \* history: take_snapshot invocations so far
  pressCalls,     \* history: value of snapCalls when the last snapshot request was made
  ticks,          \* history: ticks of the timeout closure since the last snapshot request
  countLen,       \* history: timer length loaded by the last snapshot request
  lastCall,       \* history: the last direct call of Pipeline::start or Pipeline::stop
  widgets,        \* settings dialog: <<>> when closed, or <<w>> with the values w its five widgets hold
  lastSaved,      \* history: the Settings value handed to the last save_settings call, in a sequence
  lastName,       \* history: the last output file path computed, in a sequence
  posted,         \* history: texts of the application warnings posted on the bus, in order
  shown,          \* history: texts of the application warnings shown as dialogs, in order
  displaySink,    \* the display sink (gtksink): "in_pipeline" or "removed"
  sinkRemoveAsync, \* call_async closures queued to remove the display sink
  wallClock,      \* the second the wall clock shows, as a position in ClockOrder
  snapPath,       \* per snapshot file: <<>>, or <<path>> of the file its handle was opened on
  borrowError     \* a RefCell was borrowed while a conflicting borrow was held (BorrowMutError)

graphVars == <<pipelineState, binState, inPipeline, teePads, padPeer, nextBin>>
asyncVars == <<probes, eosAsync, removeAsync, eosState, bus>>
uiVars == <<uiPc, curBin, startResult, recordActive, recordChecked, recordAction, dialogs>>
histVars == <<wasLinked, stopRequested, eosHandled, probeCount, releaseCount, eosCount>>
snapVars == <<settingsFile, lastSample, snapshotActive, snapshotChecked, snapshotAction, timer,
              remaining, tickSources, overlayVisible, overlayText, snapState, nextSnap>>
snapHist == <<presses, snapCalls, pressCalls, ticks, countLen>>
setVars == <<widgets, lastSaved, lastName>>
warnHist == <<posted, shown>>
sinkVars == <<displaySink, sinkRemoveAsync>>
fileVars == <<wallClock, snapPath, borrowError>>
vars == <<running, activated, recording_bin, faults, graphVars, asyncVars, uiVars, histVars,
          snapVars, snapHist, lastCall, setVars, warnHist, sinkVars, fileVars>>

Zero == [b \in Bins |-> 0]

\* enum SnapshotFormat and enum RecordFormat
SnapshotFormats == {"SnapshotFormat::JPEG", "SnapshotFormat::PNG"}
RecordFormats == {"RecordFormat::H264Mp4", "RecordFormat::Vp8WebM"}

\* Directories (PathBuf) a file chooser can return: the two special
\* directories of the user and one directory whose name is not valid UTF-8.
PicturesDir == [bytes |-> "/home/user/Pictures", utf8 |-> TRUE]
VideosDir == [bytes |-> "/home/user/Videos", utf8 |-> TRUE]
NonUtf8Dir == [bytes |-> "/tmp/<FF>", utf8 |-> FALSE]
Dirs == {PicturesDir, VideosDir, NonUtf8Dir}

\* struct Settings
SettingsValues ==
  [snapshot_directory : Dirs, snapshot_format : SnapshotFormats, timer_length : 0..(SpinMax + 1),
   record_directory : Dirs, record_format : RecordFormats]

\* derive(Serialize) for the two enums: a unit variant is written as the
\* string of its name.
SerializeFormat(f) ==
  CASE f = "SnapshotFormat::JPEG" -> "JPEG"
    [] f = "SnapshotFormat::PNG" -> "PNG"
    [] f = "RecordFormat::H264Mp4" -> "H264Mp4"
    [] f = "RecordFormat::Vp8WebM" -> "Vp8WebM"

\* derive(Deserialize) for SnapshotFormat: the string has to be the name of
\* a variant of this enum.
ParseSnapshotFormat(t) ==
  CASE t = "JPEG" -> "SnapshotFormat::JPEG"
    [] t = "PNG" -> "SnapshotFormat::PNG"
    [] OTHER -> "error"

\* derive(Deserialize) for RecordFormat
ParseRecordFormat(t) ==
  CASE t = "H264Mp4" -> "RecordFormat::H264Mp4"
    [] t = "Vp8WebM" -> "RecordFormat::Vp8WebM"
    [] OTHER -> "error"

\* Serialize for PathBuf: the path as a string, an error if it is not valid
\* UTF-8.
SerializePath(d) == IF d.utf8 THEN d.bytes ELSE "error"

\* Deserialize for PathBuf: any string is a path.
ParsePath(t) == [bytes |-> t, utf8 |-> TRUE]

\* The file serde_any::to_file leaves for a Settings value it can serialise.
SerializeSettings(v) ==
  [status |-> "valid",
   snapshot_directory |-> SerializePath(v.snapshot_directory),
   snapshot_format |-> SerializeFormat(v.snapshot_format),
   timer_length |-> v.timer_length,
   record_directory |-> SerializePath(v.record_directory),
   record_format |-> SerializeFormat(v.record_format)]

\* serde_any::to_file returns Ok
Serializable(v) == v.snapshot_directory.utf8 /\ v.record_directory.utf8

\* A file that does not exist, and a file serde cannot parse.
MissingFile ==
  [status |-> "missing", snapshot_directory |-> "", snapshot_format |-> "", timer_length |-> 0,
   record_directory |-> "", record_format |-> ""]
CorruptFile == [MissingFile EXCEPT !.status = "corrupt"]

\* What get_settings_file_path() may point at: no file, a file serde cannot
\* parse, or a file that parses as a Settings value.
SettingsFiles ==
  {MissingFile, CorruptFile} \cup {SerializeSettings(v) : v \in {w \in SettingsValues : Serializable(w)}}

\* Settings::default()
DefaultSettings ==
  [snapshot_directory |-> PicturesDir, snapshot_format |-> "SnapshotFormat::JPEG",
   timer_length |-> DefaultTimerLength,
   record_directory |-> VideosDir, record_format |-> "RecordFormat::H264Mp4"]

\* The file found when the application starts: none, one that does not
\* parse, one written by the settings dialog with the timer at 0..MaxTimer,
\* or one edited by hand to a timer length the spin button does not offer.
InitialFiles ==
  {MissingFile, CorruptFile}
    \cup {SerializeSettings([DefaultSettings EXCEPT !.timer_length = t]) :
            t \in (0..MaxTimer) \cup {SpinMax + 1}}

\* The state after construction, but for the settings file.
InitApp ==
  /\ running = TRUE
  /\ activated = FALSE
  /\ pipelineState = "Null"
  /\ recording_bin = None
  /\ nextBin = 1
  /\ binState = [b \in Bins |-> "None"]
  /\ inPipeline = {}
  /\ teePads = {PreviewPad}
  /\ padPeer = [p \in Pads |-> IF p = PreviewPad THEN PreviewSink ELSE NoPeer]
  /\ probes = Zero
  /\ eosAsync = Zero
  /\ removeAsync = Zero
  /\ eosState = [b \in Bins |-> "none"]
  /\ bus = <<>>
  /\ uiPc = "idle"
  /\ curBin = None
  /\ startResult = "none"
  /\ recordActive = FALSE
  /\ recordChecked = FALSE
  /\ recordAction = FALSE
  /\ dialogs = <<>>
  /\ faults = 0
  /\ wasLinked = {}
  /\ stopRequested = {}
  /\ eosHandled = {}
  /\ probeCount = Zero
  /\ releaseCount = Zero
  /\ eosCount = Zero
  /\ lastSample = FALSE
  /\ snapshotActive = FALSE
  /\ snapshotChecked = FALSE
  /\ snapshotAction = FALSE
  /\ timer = FALSE
  /\ remaining = 0
  /\ tickSources = 0
  /\ overlayVisible = FALSE
  /\ overlayText = 0
  /\ snapState = [s \in Snaps |-> "none"]
  /\ nextSnap = 1
  /\ presses = 0
  /\ snapCalls = 0
  /\ pressCalls = 0
  /\ ticks = 0
  /\ countLen = 0
  /\ lastCall = [n |-> 0, op |-> "none", graph |-> <<"Null", [b \in Bins |-> "None"]>>,
                 repeated |-> FALSE]
  /\ widgets = <<>>
  /\ lastSaved = <<>>
  /\ lastName = <<>>
  /\ posted = <<>>
  /\ shown = <<>>
  /\ displaySink = "in_pipeline"
  /\ sinkRemoveAsync = 0
  /\ wallClock = 1
  /\ snapPath = [s \in Snaps |-> <<>>]
  /\ borrowError = FALSE

Init == InitApp /\ settingsFile \in InitialFiles

\* The user can reach the header bar: the window is shown, no handler runs and
\* no modal error dialog is open.
UiReady == running /\ activated /\ uiPc = "idle" /\ dialogs = <<>> /\ widgets = <<>>

Dialog(fatal, text) == [fatal |-> fatal, text |-> text]

\* serde_any::from_file on a file that parses
ParseSettings(f) ==
  [snapshot_directory |-> ParsePath(f.snapshot_directory),
   snapshot_format |-> ParseSnapshotFormat(f.snapshot_format),
   timer_length |-> f.timer_length,
   record_directory |-> ParsePath(f.record_directory),
   record_format |-> ParseRecordFormat(f.record_format)]

\* Value returned by utils::load_settings: the parsed file if it exists and
\* parses, the defaults otherwise.
LoadSettings ==
  IF settingsFile.status = "valid"
    THEN ParseSettings(settingsFile)
    ELSE DefaultSettings

\* Faulty variant of LoadWarns: a file that does not parse is passed over in
\* silence.
LoadWarns_Never(d) == d

\* Dialogs open after utils::load_settings was called with dialogs d open: a
\* file that exists but does not parse opens a non-fatal error dialog.
LoadWarns(d) ==
  IF settingsFile.status = "corrupt"
    THEN Append(d, Dialog(FALSE, "Error when opening settings"))
    ELSE d

\* The RefCells of the program: AppInner.timer (app.rs),
\* PipelineInner.recording_bin (pipeline.rs) and the Rc<RefCell<AppInner>> of
\* the App revision (main.rs).
Cells == {"timer", "recording_bin", "inner"}

\* RefCell::borrow_mut, RefCell::borrow and the drop of the guard they return,
\* as the events a handler performs on cell c.
BorrowMut(c) == <<[op |-> "borrow_mut", cell |-> c]>>
Borrow(c) == <<[op |-> "borrow", cell |-> c]>>
Release(c) == <<[op |-> "release", cell |-> c]>>

\* The borrow flag of a RefCell after each event: held[c] is -1 while c is
\* borrowed mutably, else the number of shared borrows.  borrow_mut panics
\* when any borrow is held, borrow panics when a mutable borrow is held.
RECURSIVE Conflict(_, _)
Conflict(events, held) ==
  IF events = <<>> THEN FALSE
  ELSE LET e == Head(events) IN
       CASE e.op = "borrow_mut" ->
              IF held[e.cell] # 0 THEN TRUE
              ELSE Conflict(Tail(events), [held EXCEPT ![e.cell] = -1])
         [] e.op = "borrow" ->
              IF held[e.cell] < 0 THEN TRUE
              ELSE Conflict(Tail(events), [held EXCEPT ![e.cell] = @ + 1])
         [] OTHER ->
              Conflict(Tail(events), [held EXCEPT ![e.cell] = IF @ < 0 THEN 0 ELSE @ - 1])

\* The events of one callback raise a double-borrow panic.
DoubleBorrow(events) == Conflict(events, [c \in Cells |-> 0])

\* Pipeline::stop_recording: self.recording_bin.borrow_mut().take() in the
\* scrutinee of a match whose arms borrow nothing.
StopRecordingCells == BorrowMut("recording_bin") \o Release("recording_bin")

\* Pipeline::start_recording: *self.recording_bin.borrow_mut() = Some(bin),
\* reached when the link succeeded.
StartRecordingCells(ok) ==
  IF ok THEN BorrowMut("recording_bin") \o Release("recording_bin") ELSE <<>>

\* HeaderBar::set_record_active(false): a toggle that is pressed flips and runs
\* its toggled handler, the change-state handler of the action and
\* on_record_state_changed(Idle) inside the caller.
SetRecordInactiveCells(active) == IF active THEN StopRecordingCells ELSE <<>>

\* on_snapshot_state_changed(Idle): let _ = self.timer.borrow_mut().take()
SnapshotIdleCells == BorrowMut("timer") \o Release("timer")

\* HeaderBar::set_snapshot_active(false): a toggle that is pressed flips and
\* runs on_snapshot_state_changed(Idle) inside the caller.
SetSnapshotInactiveCells(active) == IF active THEN SnapshotIdleCells ELSE <<>>

\* The click on the snapshot toggle that was in state active, timer length
\* len: Idle stops the timer; a request with length 0 un-presses the toggle
\* again, any other stores a new timer.
SnapshotClickCells(active, len) ==
  IF active THEN SnapshotIdleCells
  ELSE IF len = 0 THEN SetSnapshotInactiveCells(TRUE)
  ELSE BorrowMut("timer") \o Release("timer")

\* Faulty variant of TimerTickCells: the timer stays borrowed while the
\* toggle is un-pressed.
TimerTickCells_BorrowHeld(left, active) ==
  BorrowMut("timer") \o Release("timer")
    \o (IF left = 0
          THEN BorrowMut("timer") \o SetSnapshotInactiveCells(active) \o Release("timer")
          ELSE <<>>)

\* The timeout closure with left seconds remaining after its tick: the tick
\* borrows the timer; at zero the timer is taken in a statement of its own
\* and then the toggle (pressed: active) is un-pressed.
TimerTickCells(left, active) ==
  BorrowMut("timer") \o Release("timer")
    \o (IF left = 0
          THEN BorrowMut("timer") \o Release("timer") \o SetSnapshotInactiveCells(active)
          ELSE <<>>)

\* App::take_snapshot (main.rs): self.0.borrow().pipeline in the scrutinee of
\* a match.
AppTakeSnapshotCells == Borrow("inner") \o Release("inner")

\* App::on_snapshot_button_clicked (main.rs): inner = self.0.borrow_mut() for
\* the whole handler, dropped before take_snapshot when the timer length is 0.
AppSnapshotClickCells(counting, len) ==
  BorrowMut("inner") \o Release("inner")
    \o (IF ~counting /\ len = 0 THEN AppTakeSnapshotCells ELSE <<>>)

\* The timeout closure of the App revision: inner = app.0.borrow_mut(),
\* dropped before take_snapshot when left seconds remain and left is 0.
AppTimerTickCells(left) ==
  BorrowMut("inner") \o Release("inner")
    \o (IF left = 0 THEN AppTakeSnapshotCells ELSE <<>>)

\* App::on_record_button_clicked (main.rs): self.0.borrow().pipeline in the
\* scrutinee of a match.
AppRecordClickCells == Borrow("inner") \o Release("inner")

\* App::on_activate (main.rs): inner = self.0.borrow_mut() for the handler.
AppActivateCells == BorrowMut("inner") \o Release("inner")

\* Pipeline::stop (called by App::on_shutdown): every element still in the
\* pipeline follows the pipeline to Null.
PipelineStop ==
  /\ pipelineState' = "Null"
  /\ binState' = [b \in Bins |-> IF b \in inPipeline THEN "Null" ELSE binState[b]]

\* App::on_shutdown
Shutdown ==
  /\ running /\ uiPc = "idle"
  /\ running' = FALSE
  /\ PipelineStop
  /\ UNCHANGED <<activated, recording_bin, faults, inPipeline, teePads, padPeer, nextBin,
                 asyncVars, uiVars, histVars>>
  /\ UNCHANGED <<snapVars, snapHist, lastCall, setVars, warnHist, sinkVars, fileVars>>

\* App::on_activate: show the window, then Pipeline::start.
Activate ==
  /\ running /\ uiPc = "idle"
  /\ activated' = TRUE
  /\ \E ok \in BOOLEAN :
       /\ ok \/ (pipelineState # "Playing" /\ faults < MaxFaults)
       /\ IF ok
            THEN /\ pipelineState' = "Playing"
                 /\ UNCHANGED <<dialogs, faults>>
            ELSE /\ dialogs' = Append(dialogs, Dialog(TRUE, "Failed to set pipeline to playing"))
                 /\ faults' = faults + 1
                 /\ UNCHANGED pipelineState
  /\ UNCHANGED <<running, recording_bin, binState, inPipeline, teePads, padPeer, nextBin,
                 asyncVars, uiPc, curBin, startResult, recordActive, recordChecked, recordAction, histVars>>
  /\ UNCHANGED <<snapVars, snapHist, lastCall, setVars, warnHist, sinkVars, fileVars>>

\* Faulty variant of ProbeCallback: releases every request pad of the tee
\* instead of the pad the probe was installed on.
ProbeCallback_AllPads(p) ==
  /\ padPeer' = [q \in Pads |-> IF q = PreviewPad THEN padPeer[q] ELSE NoPeer]
  /\ teePads' = {PreviewPad}
  /\ releaseCount' = [releaseCount EXCEPT ![p] = @ + 1]
  /\ eosAsync' = [eosAsync EXCEPT ![p] = @ + 1]

\* The closure given to add_probe in stop_recording, for the tee pad p of bin p.
ProbeCallback(p) ==
  /\ padPeer' = [padPeer EXCEPT ![p] = IF @ = p THEN NoPeer ELSE @]
  /\ teePads' = teePads \ {p}
  /\ releaseCount' = [releaseCount EXCEPT ![p] = @ + 1]
  /\ eosAsync' = [eosAsync EXCEPT ![p] = @ + 1]

\* sinkpad.get_peer() for the sink pad of bin b: the tee pad linked to it.
PeerPad(b) ==
  IF \E p \in teePads : padPeer[p] = b
    THEN CHOOSE p \in teePads : padPeer[p] = b
    ELSE NoPeer

\* Faulty variant of StopRecording: the session is not taken out of
\* recording_bin.
StopRecording_KeepSession(immediate) ==
  IF recording_bin = None \/ PeerPad(recording_bin) = NoPeer
    THEN UNCHANGED <<recording_bin, padPeer, teePads, releaseCount, eosAsync, probes,
                     probeCount, stopRequested>>
    ELSE LET p == PeerPad(recording_bin) IN
         /\ UNCHANGED recording_bin
         /\ stopRequested' = stopRequested \cup {recording_bin}
         /\ probeCount' = [probeCount EXCEPT ![p] = @ + 1]
         /\ IF immediate
              THEN ProbeCallback(p) /\ UNCHANGED probes
              ELSE /\ probes' = [probes EXCEPT ![p] = @ + 1]
                   /\ UNCHANGED <<padPeer, teePads, releaseCount, eosAsync>>

\* Faulty variant of StopRecording: with no session stored it looks for a
\* linked recording bin in the pipeline instead of returning.
StopRecording_AnyBin(immediate) ==
  LET bin == IF recording_bin # None THEN recording_bin
             ELSE IF \E b \in inPipeline : PeerPad(b) # NoPeer
                    THEN CHOOSE b \in inPipeline : PeerPad(b) # NoPeer
                    ELSE None
  IN
  IF bin = None \/ PeerPad(bin) = NoPeer
    THEN /\ recording_bin' = None
         /\ UNCHANGED <<padPeer, teePads, releaseCount, eosAsync, probes, probeCount,
                        stopRequested>>
    ELSE LET p == PeerPad(bin) IN
         /\ recording_bin' = None
         /\ stopRequested' = stopRequested \cup {bin}
         /\ probeCount' = [probeCount EXCEPT ![p] = @ + 1]
         /\ IF immediate
              THEN ProbeCallback(p) /\ UNCHANGED probes
              ELSE /\ probes' = [probes EXCEPT ![p] = @ + 1]
                   /\ UNCHANGED <<padPeer, teePads, releaseCount, eosAsync>>

\* Pipeline::stop_recording.  immediate: the pad is idle at add_probe, so the
\* probe closure runs inside add_probe on the calling thread.
StopRecording(immediate) ==
  IF recording_bin = None \/ PeerPad(recording_bin) = NoPeer
    THEN /\ recording_bin' = None
         /\ UNCHANGED <<padPeer, teePads, releaseCount, eosAsync, probes, probeCount,
                        stopRequested>>
    ELSE LET p == PeerPad(recording_bin) IN
         /\ recording_bin' = None
         /\ stopRequested' = stopRequested \cup {recording_bin}
         /\ probeCount' = [probeCount EXCEPT ![p] = @ + 1]
         /\ IF immediate
              THEN ProbeCallback(p) /\ UNCHANGED probes
              ELSE /\ probes' = [probes EXCEPT ![p] = @ + 1]
                   /\ UNCHANGED <<padPeer, teePads, releaseCount, eosAsync>>


\* Faulty variant of StartRecordingBegin: the sub-graph is built but not set
\* to Playing before it is attached.
StartRecordingBegin_NotStarted ==
  /\ nextBin <= MaxBins
  /\ \E outcome \in {"ok", "err_build"} :
       /\ outcome = "ok" \/ faults < MaxFaults
       /\ faults' = IF outcome = "ok" THEN faults ELSE faults + 1
       /\ IF outcome = "err_build"
            THEN UNCHANGED <<nextBin, binState, curBin>>
            ELSE /\ nextBin' = nextBin + 1
                 /\ binState' = [binState EXCEPT ![nextBin] = "Null"]
                 /\ curBin' = nextBin
       /\ startResult' = IF outcome = "ok" THEN startResult ELSE outcome
       /\ uiPc' = IF outcome = "ok" THEN "add" ELSE "start_failed"

\* Pipeline::start_recording up to bin.set_state(Playing), entered from
\* App::on_record_state_changed(Recording).
StartRecordingBegin ==
  /\ nextBin <= MaxBins
  /\ \E outcome \in {"ok", "err_build", "err_state"} :
       /\ outcome = "ok" \/ faults < MaxFaults
       /\ faults' = IF outcome = "ok" THEN faults ELSE faults + 1
       /\ IF outcome = "err_build"
            THEN UNCHANGED <<nextBin, binState, curBin>>
            ELSE /\ nextBin' = nextBin + 1
                 /\ binState' = [binState EXCEPT ![nextBin] =
                                   IF outcome = "ok" THEN "Playing" ELSE "Dropped"]
                 /\ curBin' = IF outcome = "ok" THEN nextBin ELSE curBin
       /\ startResult' = IF outcome = "ok" THEN startResult ELSE outcome
       /\ uiPc' = IF outcome = "ok" THEN "add" ELSE "start_failed"

\* A click on the record toggle: the button flips, its toggled handler
\* (HeaderBar::new) changes the state of the action "record", whose
\* change-state handler (App::create_actions) calls on_record_state_changed
\* and then stores the state.
RecordToggleClick ==
  /\ UiReady
  /\ recordActive' = ~recordActive
  /\ recordChecked' = ~recordActive
  /\ IF ~recordActive
       THEN /\ StartRecordingBegin
            /\ UNCHANGED <<recording_bin, padPeer, teePads, releaseCount, eosAsync, probes,
                           probeCount, stopRequested, recordAction>>
       ELSE /\ \E immediate \in BOOLEAN : StopRecording(immediate)
            /\ recordAction' = FALSE
            /\ UNCHANGED <<nextBin, binState, curBin, startResult, uiPc, faults>>
  /\ dialogs' = IF ~recordActive THEN LoadWarns(dialogs) ELSE dialogs
  /\ UNCHANGED <<running, activated, pipelineState, inPipeline, removeAsync, eosState, bus,
                 wasLinked, eosHandled, eosCount>>
  /\ UNCHANGED <<snapVars, snapHist, lastCall, setVars, warnHist, sinkVars, wallClock, snapPath>>
  /\ borrowError' = (borrowError \/ DoubleBorrow(IF recordActive THEN StopRecordingCells ELSE <<>>))

\* start_recording: self.pipeline.add(&bin)
StartRecordingAdd ==
  /\ running /\ uiPc = "add"
  /\ inPipeline' = inPipeline \cup {curBin}
  /\ uiPc' = "request_pad"
  /\ UNCHANGED <<running, activated, recording_bin, faults, pipelineState, binState, teePads,
                 padPeer, nextBin, asyncVars, curBin, startResult, recordActive, recordChecked, recordAction,
                 dialogs, histVars>>
  /\ UNCHANGED <<snapVars, snapHist, lastCall, setVars, warnHist, sinkVars, fileVars>>

\* start_recording: self.tee.get_request_pad("src_%u")
StartRecordingRequestPad ==
  /\ running /\ uiPc = "request_pad"
  /\ teePads' = teePads \cup {curBin}
  /\ uiPc' = "link"
  /\ UNCHANGED <<running, activated, recording_bin, faults, pipelineState, binState, inPipeline,
                 padPeer, nextBin, asyncVars, curBin, startResult, recordActive, recordChecked, recordAction,
                 dialogs, histVars>>
  /\ UNCHANGED <<snapVars, snapHist, lastCall, setVars, warnHist, sinkVars, fileVars>>

\* Faulty variant of StartRecordingLink: a failed link leaves the bin in the
\* pipeline and Playing.
StartRecordingLink_NoRollback ==
  /\ running /\ uiPc = "link"
  /\ \E ok \in BOOLEAN :
       /\ ok \/ faults < MaxFaults
       /\ IF ok
            THEN /\ padPeer' = [padPeer EXCEPT ![curBin] = curBin]
                 /\ recording_bin' = curBin
                 /\ wasLinked' = wasLinked \cup {curBin}
                 /\ startResult' = "ok"
                 /\ recordAction' = TRUE
                 /\ uiPc' = "idle"
                 /\ UNCHANGED faults
            ELSE /\ startResult' = "err_link"
                 /\ uiPc' = "start_failed"
                 /\ faults' = faults + 1
                 /\ UNCHANGED <<padPeer, recording_bin, wasLinked, recordAction>>
  /\ UNCHANGED <<running, activated, pipelineState, inPipeline, binState, teePads, nextBin,
                 asyncVars, curBin, recordActive, recordChecked, dialogs, stopRequested,
                 eosHandled, probeCount, releaseCount, eosCount>>
  /\ UNCHANGED <<snapVars, snapHist, lastCall, setVars, warnHist, sinkVars, wallClock, snapPath>>
  /\ borrowError' = (borrowError \/ DoubleBorrow(StartRecordingCells(startResult' = "ok")))

\* start_recording: srcpad.link(&sinkpad) and what follows it.  On success
\* the session is stored, Ok is returned and the change-state handler stores
\* the action state; on failure the bin is rolled back and Err is returned.
StartRecordingLink ==
  /\ running /\ uiPc = "link"
  /\ \E ok \in BOOLEAN :
       /\ ok \/ faults < MaxFaults
       /\ IF ok
            THEN /\ padPeer' = [padPeer EXCEPT ![curBin] = curBin]
                 /\ recording_bin' = curBin
                 /\ wasLinked' = wasLinked \cup {curBin}
                 /\ startResult' = "ok"
                 /\ recordAction' = TRUE
                 /\ uiPc' = "idle"
                 /\ UNCHANGED <<inPipeline, binState, faults>>
            ELSE /\ inPipeline' = inPipeline \ {curBin}
                 /\ binState' = [binState EXCEPT ![curBin] = "Null"]
                 /\ startResult' = "err_link"
                 /\ uiPc' = "start_failed"
                 /\ faults' = faults + 1
                 /\ UNCHANGED <<padPeer, recording_bin, wasLinked, recordAction>>
  /\ UNCHANGED <<running, activated, pipelineState, teePads, nextBin, asyncVars, curBin,
                 recordActive, recordChecked, dialogs, stopRequested, eosHandled, probeCount, releaseCount,
                 eosCount>>
  /\ UNCHANGED <<snapVars, snapHist, lastCall, setVars, warnHist, sinkVars, wallClock, snapPath>>
  /\ borrowError' = (borrowError \/ DoubleBorrow(StartRecordingCells(startResult' = "ok")))

\* Faulty variant of HandleStartError: the record toggle is not reset.
HandleStartError_NoReset ==
  /\ running /\ uiPc = "start_failed"
  /\ dialogs' = Append(dialogs, Dialog(FALSE, "Failed to start recording"))
  /\ recordAction' = TRUE
  /\ uiPc' = "idle"
  /\ UNCHANGED <<running, activated, recording_bin, faults, graphVars, asyncVars, curBin,
                 startResult, recordActive, recordChecked, histVars>>
  /\ UNCHANGED <<snapVars, snapHist, lastCall, setVars, warnHist, sinkVars, wallClock, snapPath>>
  /\ borrowError' = (borrowError \/ DoubleBorrow(<<>>))

\* App::on_record_state_changed, Err arm: error dialog, then
\* set_record_active(false), which re-enters the toggled handler and with it
\* on_record_state_changed(Idle) and stop_recording; the inner change-state
\* handler stores false, then the outer one stores the requested state.
HandleStartError ==
  /\ running /\ uiPc = "start_failed"
  /\ dialogs' = Append(dialogs, Dialog(FALSE, "Failed to start recording"))
  /\ recordActive' = FALSE
  /\ recordChecked' = FALSE
  /\ IF recordActive
       THEN \E immediate \in BOOLEAN : StopRecording(immediate)
       ELSE UNCHANGED <<recording_bin, padPeer, teePads, releaseCount, eosAsync, probes,
                        probeCount, stopRequested>>
  /\ recordAction' = TRUE
  /\ uiPc' = "idle"
  /\ UNCHANGED <<running, activated, faults, pipelineState, binState, inPipeline, nextBin,
                 removeAsync, eosState, bus, curBin, startResult, wasLinked, eosHandled,
                 eosCount>>
  /\ UNCHANGED <<snapVars, snapHist, lastCall, setVars, warnHist, sinkVars, wallClock, snapPath>>
  /\ borrowError' = (borrowError \/ DoubleBorrow(SetRecordInactiveCells(recordActive)))

\* Faulty variant of ProbeFire: the closure forgets to send EOS.
ProbeFire_NoEos(p) ==
  /\ running /\ probes[p] > 0
  /\ probes' = [probes EXCEPT ![p] = @ - 1]
  /\ padPeer' = [padPeer EXCEPT ![p] = IF @ = p THEN NoPeer ELSE @]
  /\ teePads' = teePads \ {p}
  /\ releaseCount' = [releaseCount EXCEPT ![p] = @ + 1]
  /\ UNCHANGED <<running, activated, recording_bin, faults, pipelineState, binState, inPipeline,
                 nextBin, eosAsync, removeAsync, eosState, bus, uiVars, wasLinked, stopRequested,
                 eosHandled, probeCount, eosCount>>
  /\ UNCHANGED <<snapVars, snapHist, lastCall, setVars, warnHist, sinkVars, fileVars>>

\* The idle probe installed by stop_recording fires on a streaming thread.  On
\* a pad the tee has already released, srcpad.get_parent() is None and the
\* expect in the closure panics.
ProbeFire(p) ==
  /\ running /\ probes[p] > 0
  /\ probes' = [probes EXCEPT ![p] = @ - 1]
  /\ IF p \in teePads
       THEN ProbeCallback(p) /\ UNCHANGED running
       ELSE running' = FALSE /\ UNCHANGED <<padPeer, teePads, releaseCount, eosAsync>>
  /\ UNCHANGED <<activated, recording_bin, faults, pipelineState, binState, inPipeline,
                 nextBin, removeAsync, eosState, bus, uiVars, wasLinked, stopRequested,
                 eosHandled, probeCount, eosCount>>
  /\ UNCHANGED <<snapVars, snapHist, lastCall, setVars, warnHist, sinkVars, fileVars>>

\* Faulty variant of SendEos: the event is also sent while the probe is
\* still waiting for the pad to become idle.
SendEos_BeforeProbe(b) ==
  /\ running /\ (eosAsync[b] > 0 \/ probes[b] > 0)
  /\ eosAsync' = [eosAsync EXCEPT ![b] = IF @ > 0 THEN @ - 1 ELSE @]
  /\ eosCount' = [eosCount EXCEPT ![b] = @ + 1]
  /\ eosState' = [eosState EXCEPT ![b] =
                    IF @ = "none" /\ binState[b] = "Playing" THEN "draining" ELSE @]
  /\ UNCHANGED <<running, activated, recording_bin, faults, graphVars, probes, removeAsync, bus,
                 uiVars, wasLinked, stopRequested, eosHandled, probeCount, releaseCount>>
  /\ UNCHANGED <<snapVars, snapHist, lastCall, setVars, warnHist, sinkVars, fileVars>>

\* The call_async closure of the probe: sinkpad.send_event(EOS).  A sink pad
\* that already received EOS refuses the event.
SendEos(b) ==
  /\ running /\ eosAsync[b] > 0
  /\ eosAsync' = [eosAsync EXCEPT ![b] = @ - 1]
  /\ eosCount' = [eosCount EXCEPT ![b] = @ + 1]
  /\ eosState' = [eosState EXCEPT ![b] =
                    IF @ = "none" /\ binState[b] = "Playing" THEN "draining" ELSE @]
  /\ UNCHANGED <<running, activated, recording_bin, faults, graphVars, probes, removeAsync, bus,
                 uiVars, wasLinked, stopRequested, eosHandled, probeCount, releaseCount>>
  /\ UNCHANGED <<snapVars, snapHist, lastCall, setVars, warnHist, sinkVars, fileVars>>

\* The sub-graph has drained: its file sink reached EOS, the bin posts EOS and
\* the pipeline (message-forward) posts it on the bus as GstBinForwarded.
BinEos(b) ==
  /\ running /\ eosState[b] = "draining" /\ b \in inPipeline /\ binState[b] = "Playing"
  /\ eosState' = [eosState EXCEPT ![b] = "posted"]
  /\ bus' = Append(bus, [kind |-> "eos", src |-> b, text |-> ""])
  /\ UNCHANGED <<running, activated, recording_bin, faults, graphVars, probes, eosAsync,
                 removeAsync, uiVars, histVars>>
  /\ UNCHANGED <<snapVars, snapHist, lastCall, setVars, warnHist, sinkVars, fileVars>>

\* Faulty variant of OnPipelineMessage: the bus watch takes the message posted
\* last instead of the oldest one.
OnPipelineMessage_NewestFirst ==
  /\ running /\ uiPc = "idle" /\ bus # <<>>
  /\ bus' = SubSeq(bus, 1, Len(bus) - 1)
  /\ LET msg == bus[Len(bus)] IN
       CASE msg.kind = "eos" ->
              /\ IF msg.src \in Bins
                   THEN /\ removeAsync' = [removeAsync EXCEPT ![msg.src] = @ + 1]
                        /\ eosHandled' = eosHandled \cup {msg.src}
                        /\ UNCHANGED sinkRemoveAsync
                   ELSE /\ sinkRemoveAsync' = sinkRemoveAsync + 1
                        /\ UNCHANGED <<removeAsync, eosHandled>>
              /\ UNCHANGED <<dialogs, shown>>
         [] msg.kind = "warning" ->
              /\ dialogs' = Append(dialogs, Dialog(FALSE, msg.text))
              /\ shown' = Append(shown, msg.text)
              /\ UNCHANGED <<removeAsync, eosHandled, sinkRemoveAsync>>
         [] OTHER ->
              /\ dialogs' = Append(dialogs, Dialog(TRUE, "Error"))
              /\ UNCHANGED <<removeAsync, eosHandled, shown, sinkRemoveAsync>>
  /\ UNCHANGED <<running, activated, recording_bin, faults, graphVars, probes, eosAsync, eosState,
                 uiPc, curBin, startResult, recordActive, recordChecked, recordAction, wasLinked, stopRequested,
                 probeCount, releaseCount, eosCount>>
  /\ UNCHANGED <<snapVars, snapHist, lastCall, setVars, posted, displaySink, fileVars>>

\* Faulty variant of OnPipelineMessage: the dialog of an Error message is not
\* fatal.
OnPipelineMessage_ErrorNonFatal ==
  /\ running /\ uiPc = "idle" /\ bus # <<>>
  /\ bus' = Tail(bus)
  /\ LET msg == Head(bus) IN
       CASE msg.kind = "eos" ->
              /\ IF msg.src \in Bins
                   THEN /\ removeAsync' = [removeAsync EXCEPT ![msg.src] = @ + 1]
                        /\ eosHandled' = eosHandled \cup {msg.src}
                        /\ UNCHANGED sinkRemoveAsync
                   ELSE /\ sinkRemoveAsync' = sinkRemoveAsync + 1
                        /\ UNCHANGED <<removeAsync, eosHandled>>
              /\ UNCHANGED <<dialogs, shown>>
         [] msg.kind = "warning" ->
              /\ dialogs' = Append(dialogs, Dialog(FALSE, msg.text))
              /\ shown' = Append(shown, msg.text)
              /\ UNCHANGED <<removeAsync, eosHandled, sinkRemoveAsync>>
         [] OTHER ->
              /\ dialogs' = Append(dialogs, Dialog(FALSE, "Error"))
              /\ UNCHANGED <<removeAsync, eosHandled, shown, sinkRemoveAsync>>
  /\ UNCHANGED <<running, activated, recording_bin, faults, graphVars, probes, eosAsync, eosState,
                 uiPc, curBin, startResult, recordActive, recordChecked, recordAction, wasLinked, stopRequested,
                 probeCount, releaseCount, eosCount>>
  /\ UNCHANGED <<snapVars, snapHist, lastCall, setVars, posted, displaySink, fileVars>>

\* Pipeline::on_pipeline_message, called by the bus watch on the UI thread.
OnPipelineMessage ==
  /\ running /\ uiPc = "idle" /\ bus # <<>>
  /\ bus' = Tail(bus)
  /\ LET msg == Head(bus) IN
       CASE msg.kind = "eos" ->
              /\ IF msg.src \in Bins
                   THEN /\ removeAsync' = [removeAsync EXCEPT ![msg.src] = @ + 1]
                        /\ eosHandled' = eosHandled \cup {msg.src}
                        /\ UNCHANGED sinkRemoveAsync
                   ELSE /\ sinkRemoveAsync' = sinkRemoveAsync + 1
                        /\ UNCHANGED <<removeAsync, eosHandled>>
              /\ UNCHANGED <<dialogs, shown>>
         [] msg.kind = "warning" ->
              /\ dialogs' = Append(dialogs, Dialog(FALSE, msg.text))
              /\ shown' = Append(shown, msg.text)
              /\ UNCHANGED <<removeAsync, eosHandled, sinkRemoveAsync>>
         [] OTHER ->
              /\ dialogs' = Append(dialogs, Dialog(TRUE, "Error"))
              /\ UNCHANGED <<removeAsync, eosHandled, shown, sinkRemoveAsync>>
  /\ UNCHANGED <<running, activated, recording_bin, faults, graphVars, probes, eosAsync, eosState,
                 uiPc, curBin, startResult, recordActive, recordChecked, recordAction, wasLinked, stopRequested,
                 probeCount, releaseCount, eosCount>>
  /\ UNCHANGED <<snapVars, snapHist, lastCall, setVars, posted, displaySink, fileVars>>

\* Faulty variant of RemoveAsync: a stopped sub-graph is also removed without
\* waiting for its forwarded EOS (as a timeout would do).
RemoveAsync_OnTimeout(b) ==
  /\ running
  /\ removeAsync[b] > 0 \/ (b \in stopRequested /\ b \in inPipeline)
  /\ removeAsync' = [removeAsync EXCEPT ![b] = IF @ > 0 THEN @ - 1 ELSE @]
  /\ inPipeline' = inPipeline \ {b}
  /\ binState' = [binState EXCEPT ![b] = "Null"]
  /\ UNCHANGED <<running, activated, recording_bin, faults, pipelineState, teePads, padPeer,
                 nextBin, probes, eosAsync, eosState, bus, uiVars, histVars>>
  /\ UNCHANGED <<snapVars, snapHist, lastCall, setVars, warnHist, sinkVars, fileVars>>

\* The call_async closure of on_pipeline_message: pipeline.remove(&bin), then
\* bin.set_state(Null); a refused state change posts a warning on the bus.
RemoveAsync(b) ==
  /\ running /\ removeAsync[b] > 0
  /\ removeAsync' = [removeAsync EXCEPT ![b] = @ - 1]
  /\ inPipeline' = inPipeline \ {b}
  /\ binState' = [binState EXCEPT ![b] = "Null"]
  /\ \E ok \in BOOLEAN :
       /\ ok \/ faults < MaxFaults
       /\ IF ok
            THEN UNCHANGED <<bus, faults, posted>>
            ELSE /\ bus' = Append(bus, [kind |-> "warning", src |-> None,
                                        text |-> "Failed to stop recording"])
                 /\ posted' = Append(posted, "Failed to stop recording")
                 /\ faults' = faults + 1
  /\ UNCHANGED <<running, activated, recording_bin, pipelineState, teePads, padPeer, nextBin,
                 probes, eosAsync, eosState, uiVars, histVars>>
  /\ UNCHANGED <<snapVars, snapHist, lastCall, setVars, shown, sinkVars, fileVars>>

\* The response handler of show_error_dialog: the dialog most recently opened
\* holds the modal grab; closing a fatal one quits the application, which
\* runs on_shutdown.
DialogResponse ==
  /\ running /\ uiPc = "idle" /\ dialogs # <<>>
  /\ dialogs' = SubSeq(dialogs, 1, Len(dialogs) - 1)
  /\ IF dialogs[Len(dialogs)].fatal
       THEN running' = FALSE /\ PipelineStop
       ELSE UNCHANGED <<running, pipelineState, binState>>
  /\ UNCHANGED <<activated, recording_bin, faults, inPipeline, teePads, padPeer, nextBin,
                 asyncVars, uiPc, curBin, startResult, recordActive, recordChecked, recordAction, histVars>>
  /\ UNCHANGED <<snapVars, snapHist, lastCall, setVars, warnHist, sinkVars, fileVars>>

\* Variables of the recording session, which the snapshot handlers leave alone.
recVars == <<recording_bin, graphVars, probes, eosAsync, removeAsync, eosState, uiPc, curBin,
             startResult, recordActive, recordChecked, recordAction, histVars, lastCall>>

\* The readings of Local::now() in the order in which the wall clock shows
\* them, one per second in which the program looks at the clock.
ClockOrder ==
  <<[year |-> 2018, month |-> 11, day |-> 9, hour |-> 7, minute |-> 5, second |-> 3],
    [year |-> 2018, month |-> 12, day |-> 31, hour |-> 23, minute |-> 59, second |-> 58]>>

\* Local times at which a file name is computed.
Clock == {ClockOrder[i] : i \in DOMAIN ClockOrder}

\* A strftime field of two digits, padded with a zero.
TwoDigits(n) == IF n < 10 THEN "0" \o ToString(n) ELSE ToString(n)

\* Faulty variant of FormatNow: the time of day is written with colons.
FormatNow_Colons(now) ==
  ToString(now.year) \o "-" \o TwoDigits(now.month) \o "-" \o TwoDigits(now.day) \o " "
    \o TwoDigits(now.hour) \o ":" \o TwoDigits(now.minute) \o ":" \o TwoDigits(now.second)

\* now.format("%Y-%m-%d %H-%M-%S")
FormatNow(now) ==
  ToString(now.year) \o "-" \o TwoDigits(now.month) \o "-" \o TwoDigits(now.day) \o " "
    \o TwoDigits(now.hour) \o "-" \o TwoDigits(now.minute) \o "-" \o TwoDigits(now.second)

\* The file name extension take_snapshot picks for a snapshot format.
SnapshotExtension(f) == IF f = "SnapshotFormat::JPEG" THEN "jpg" ELSE "png"

\* The file name extension start_recording picks for a record format.
RecordExtension(f) == IF f = "RecordFormat::H264Mp4" THEN "mp4" ELSE "webm"

\* Path of the file take_snapshot writes with settings v at local time now:
\* the snapshot directory with the file name pushed onto it.
SnapshotFileName(v, now) ==
  [dir |-> v.snapshot_directory,
   file |-> "Snapshot " \o FormatNow(now) \o "." \o SnapshotExtension(v.snapshot_format)]

\* Path of the file start_recording hands to the file sink.
RecordingFileName(v, now) ==
  [dir |-> v.record_directory,
   file |-> "Recording " \o FormatNow(now) \o "." \o RecordExtension(v.record_format)]

\* The file of snapshot s exists: File::create in take_snapshot has made it,
\* and nothing removes it afterwards.
SnapshotFileExists(s) == snapState[s] # "none"

\* Faulty variant of TakeSnapshot: the snapshot file is created and the
\* conversion started without looking at the last sample.
TakeSnapshot_NoSampleCheck(d) ==
  /\ snapCalls' = snapCalls + 1
  /\ \E created \in BOOLEAN :
       /\ created \/ faults < MaxFaults
       /\ IF created
            THEN /\ snapState' = [snapState EXCEPT ![nextSnap] = "converting"]
                 /\ snapPath' = [snapPath EXCEPT ![nextSnap] =
                                   <<SnapshotFileName(LoadSettings, ClockOrder[wallClock])>>]
                 /\ nextSnap' = nextSnap + 1
                 /\ dialogs' = LoadWarns(d)
                 /\ UNCHANGED faults
            ELSE /\ dialogs' = Append(LoadWarns(d), Dialog(FALSE, "Failed to take snapshot"))
                 /\ faults' = faults + 1
                 /\ UNCHANGED <<snapState, snapPath, nextSnap>>

\* Pipeline::take_snapshot, called with dialogs d open, up to the return of
\* convert_sample_async; an Err is shown by the caller as a non-fatal dialog.
TakeSnapshot(d) ==
  /\ snapCalls' = snapCalls + 1
  /\ IF ~lastSample
       THEN /\ dialogs' = LoadWarns(d)
            /\ UNCHANGED <<snapState, snapPath, nextSnap, faults>>
       ELSE \E created \in BOOLEAN :
              /\ created \/ faults < MaxFaults
              /\ IF created
                   THEN /\ snapState' = [snapState EXCEPT ![nextSnap] = "converting"]
                        /\ snapPath' = [snapPath EXCEPT ![nextSnap] =
                                          <<SnapshotFileName(LoadSettings, ClockOrder[wallClock])>>]
                        /\ nextSnap' = nextSnap + 1
                        /\ dialogs' = LoadWarns(d)
                        /\ UNCHANGED faults
                   ELSE /\ dialogs' = Append(LoadWarns(d), Dialog(FALSE, "Failed to take snapshot"))
                        /\ faults' = faults + 1
                        /\ UNCHANGED <<snapState, snapPath, nextSnap>>

\* Faulty variant of SnapshotIdle: the timer is forgotten without removing its
\* timeout source.
SnapshotIdle_KeepSource ==
  /\ timer' = FALSE
  /\ remaining' = 0
  /\ tickSources' = tickSources
  /\ overlayVisible' = FALSE

\* Faulty variant of SnapshotIdle: the timer is dropped and the countdown
\* label is left as it is.
SnapshotIdle_KeepLabel ==
  /\ timer' = FALSE
  /\ remaining' = 0
  /\ tickSources' = IF timer THEN tickSources - 1 ELSE tickSources
  /\ overlayVisible' = overlayVisible

\* App::on_snapshot_state_changed(Idle): drop the timer, whose Drop removes
\* its timeout source, and hide the overlay.
SnapshotIdle ==
  /\ timer' = FALSE
  /\ remaining' = 0
  /\ tickSources' = IF timer THEN tickSources - 1 ELSE tickSources
  /\ overlayVisible' = FALSE

\* Faulty variant of SnapshotToggleClick: timer length 0 is not treated
\* apart, a countdown of length 0 is started.
SnapshotToggleClick_NoImmediate ==
  /\ UiReady
  /\ IF snapshotActive
       THEN /\ snapshotActive' = FALSE
            /\ snapshotChecked' = FALSE
            /\ snapshotAction' = FALSE
            /\ SnapshotIdle
            /\ dialogs' = LoadWarns(dialogs)
            /\ UNCHANGED <<overlayText, snapState, snapPath, nextSnap, faults, snapHist>>
       ELSE /\ presses < MaxPresses
            /\ presses' = presses + 1
            /\ pressCalls' = snapCalls
            /\ ticks' = 0
            /\ countLen' = LoadSettings.timer_length
            /\ snapshotAction' = TRUE
            /\ snapshotActive' = TRUE
            /\ snapshotChecked' = TRUE
            /\ overlayVisible' = TRUE
            /\ overlayText' = LoadSettings.timer_length
            /\ tickSources' = IF timer THEN tickSources ELSE tickSources + 1
            /\ timer' = TRUE
            /\ remaining' = LoadSettings.timer_length
            /\ dialogs' = LoadWarns(dialogs)
            /\ UNCHANGED <<snapState, snapPath, nextSnap, faults, snapCalls>>
  /\ UNCHANGED <<running, activated, bus, settingsFile, lastSample, recVars, setVars, warnHist, sinkVars, wallClock>>
  /\ borrowError' = (borrowError \/ DoubleBorrow(SnapshotClickCells(snapshotActive, LoadSettings.timer_length)))

\* A click on the snapshot toggle: the button flips, its toggled handler
\* (HeaderBar::new) changes the state of the action "snapshot", whose
\* change-state handler (App::create_actions) calls on_snapshot_state_changed
\* and then stores the state.
SnapshotToggleClick ==
  /\ UiReady
  /\ IF snapshotActive
       THEN /\ snapshotActive' = FALSE
            /\ snapshotChecked' = FALSE
            /\ snapshotAction' = FALSE
            /\ SnapshotIdle
            /\ dialogs' = LoadWarns(dialogs)
            /\ UNCHANGED <<overlayText, snapState, snapPath, nextSnap, faults, snapHist>>
       ELSE /\ presses < MaxPresses
            /\ presses' = presses + 1
            /\ pressCalls' = snapCalls
            /\ ticks' = 0
            /\ countLen' = LoadSettings.timer_length
            /\ snapshotAction' = TRUE
            /\ IF LoadSettings.timer_length = 0
                 THEN \* set_snapshot_active(false) re-enters the handler with Idle
                      /\ snapshotActive' = FALSE
                      /\ snapshotChecked' = FALSE
                      /\ SnapshotIdle
                      /\ TakeSnapshot(LoadWarns(LoadWarns(dialogs)))
                      /\ UNCHANGED overlayText
                 ELSE /\ snapshotActive' = TRUE
                      /\ snapshotChecked' = TRUE
                      /\ overlayVisible' = TRUE
                      /\ overlayText' = LoadSettings.timer_length
                      /\ tickSources' = IF timer THEN tickSources ELSE tickSources + 1
                      /\ timer' = TRUE
                      /\ remaining' = LoadSettings.timer_length
                      /\ dialogs' = LoadWarns(dialogs)
                      /\ UNCHANGED <<snapState, snapPath, nextSnap, faults, snapCalls>>
  /\ UNCHANGED <<running, activated, bus, settingsFile, lastSample, recVars, setVars, warnHist, sinkVars, wallClock>>
  /\ borrowError' = (borrowError \/ DoubleBorrow(SnapshotClickCells(snapshotActive, LoadSettings.timer_length)))

\* Faulty variant of TimerTick: the countdown expires one tick early.
TimerTick_Early ==
  /\ running /\ uiPc = "idle" /\ tickSources > 0
  /\ ticks' = ticks + 1
  /\ IF timer /\ remaining = 0
       THEN \* assert!(self.remaining > 0) in SnapshotTimer::tick
            /\ running' = FALSE
            /\ uiPc' = "panicked"
            /\ UNCHANGED <<snapshotActive, snapshotChecked, snapshotAction, timer, remaining,
                           tickSources, overlayVisible, overlayText, snapState, snapPath, nextSnap,
                           snapCalls, dialogs, faults>>
       ELSE /\ UNCHANGED <<running, uiPc>>
            /\ IF ~timer \/ remaining <= 2
                 THEN /\ overlayVisible' = FALSE
                      /\ timer' = FALSE
                      /\ remaining' = 0
                      /\ tickSources' = tickSources - 1
                      /\ snapshotActive' = FALSE
                      /\ snapshotChecked' = FALSE
                      /\ snapshotAction' = IF snapshotActive THEN FALSE ELSE snapshotAction
                      /\ TakeSnapshot(IF snapshotActive THEN LoadWarns(dialogs) ELSE dialogs)
                      /\ UNCHANGED overlayText
                 ELSE /\ remaining' = remaining - 1
                      /\ overlayText' = remaining - 1
                      /\ UNCHANGED <<snapshotActive, snapshotChecked, snapshotAction, timer,
                                     tickSources, overlayVisible, snapState, snapPath, nextSnap, snapCalls,
                                     dialogs, faults>>
  /\ UNCHANGED <<activated, bus, settingsFile, lastSample, presses, pressCalls, countLen,
                 recording_bin, graphVars, probes, eosAsync, removeAsync, eosState, curBin,
                 startResult, recordActive, recordChecked, recordAction, histVars, lastCall,
                 setVars, warnHist, sinkVars, wallClock>>
  /\ borrowError' = (borrowError \/ DoubleBorrow(IF timer /\ remaining = 0
                                                THEN BorrowMut("timer")
                                                ELSE TimerTickCells(IF timer THEN remaining - 1 ELSE 0,
                                                                    snapshotActive)))

\* The closure given to gtk::timeout_add in on_snapshot_state_changed, called
\* by the main loop every second while its source is registered.
TimerTick ==
  /\ running /\ uiPc = "idle" /\ tickSources > 0
  /\ ticks' = ticks + 1
  /\ IF timer /\ remaining = 0
       THEN \* assert!(self.remaining > 0) in SnapshotTimer::tick
            /\ running' = FALSE
            /\ uiPc' = "panicked"
            /\ UNCHANGED <<snapshotActive, snapshotChecked, snapshotAction, timer, remaining,
                           tickSources, overlayVisible, overlayText, snapState, snapPath, nextSnap,
                           snapCalls, dialogs, faults>>
       ELSE /\ UNCHANGED <<running, uiPc>>
            /\ IF ~timer \/ remaining = 1
                 THEN /\ overlayVisible' = FALSE
                      /\ timer' = FALSE
                      /\ remaining' = 0
                      /\ tickSources' = tickSources - 1
                      /\ snapshotActive' = FALSE
                      /\ snapshotChecked' = FALSE
                      /\ snapshotAction' = IF snapshotActive THEN FALSE ELSE snapshotAction
                      /\ TakeSnapshot(IF snapshotActive THEN LoadWarns(dialogs) ELSE dialogs)
                      /\ UNCHANGED overlayText
                 ELSE /\ remaining' = remaining - 1
                      /\ overlayText' = remaining - 1
                      /\ UNCHANGED <<snapshotActive, snapshotChecked, snapshotAction, timer,
                                     tickSources, overlayVisible, snapState, snapPath, nextSnap, snapCalls,
                                     dialogs, faults>>
  /\ UNCHANGED <<activated, bus, settingsFile, lastSample, presses, pressCalls, countLen,
                 recording_bin, graphVars, probes, eosAsync, removeAsync, eosState, curBin,
                 startResult, recordActive, recordChecked, recordAction, histVars, lastCall,
                 setVars, warnHist, sinkVars, wallClock>>
  /\ borrowError' = (borrowError \/ DoubleBorrow(IF timer /\ remaining = 0
                                                THEN BorrowMut("timer")
                                                ELSE TimerTickCells(IF timer THEN remaining - 1 ELSE 0,
                                                                    snapshotActive)))

\* Text of the application warning the conversion closure posts for a
\* failed outcome.
WarningText(outcome) ==
  IF outcome = "conv_failed" THEN "Failed to convert sample"
                             ELSE "Failed to write snapshot file"

\* Faulty variant of ConversionDone: a failed conversion or write is dropped
\* without a message on the bus.
ConversionDone_Silent(s) ==
  /\ running /\ snapState[s] = "converting"
  /\ \E outcome \in {"written", "conv_failed", "write_failed"} :
       /\ outcome = "written" \/ faults < MaxFaults
       /\ snapState' = [snapState EXCEPT ![s] = outcome]
       /\ faults' = IF outcome = "written" THEN faults ELSE faults + 1
  /\ UNCHANGED <<running, activated, bus, dialogs, settingsFile, lastSample, snapshotActive,
                 snapshotChecked, snapshotAction, timer, remaining, tickSources, overlayVisible,
                 overlayText, nextSnap, snapHist, recVars, setVars, warnHist, sinkVars, fileVars>>

\* The closure given to convert_sample_async in take_snapshot, run on a worker
\* thread when the conversion of snapshot s ends: a failed or timed-out
\* conversion and a failed write post an application warning on the bus.
ConversionDone(s) ==
  /\ running /\ snapState[s] = "converting"
  /\ \E outcome \in {"written", "conv_failed", "write_failed"} :
       /\ outcome = "written" \/ faults < MaxFaults
       /\ snapState' = [snapState EXCEPT ![s] = outcome]
       /\ faults' = IF outcome = "written" THEN faults ELSE faults + 1
       /\ bus' = IF outcome = "written" THEN bus
                 ELSE Append(bus, [kind |-> "warning", src |-> None,
                                   text |-> WarningText(outcome)])
       /\ posted' = IF outcome = "written" THEN posted
                    ELSE Append(posted, WarningText(outcome))
  /\ UNCHANGED <<running, activated, dialogs, settingsFile, lastSample, snapshotActive,
                 snapshotChecked, snapshotAction, timer, remaining, tickSources, overlayVisible,
                 overlayText, nextSnap, snapHist, recVars, setVars, shown, sinkVars, fileVars>>

\* The display sink renders its first frame: last-sample is set from then on.
FrameArrives ==
  /\ running /\ pipelineState = "Playing" /\ ~lastSample
  /\ lastSample' = TRUE
  /\ UNCHANGED <<running, activated, faults, bus, dialogs, settingsFile, snapshotActive,
                 snapshotChecked, snapshotAction, timer, remaining, tickSources, overlayVisible,
                 overlayText, snapState, snapPath, nextSnap, snapHist, recVars, setVars, warnHist, sinkVars, fileVars>>

\* From<Option<GString>> for SnapshotFormat: the active text of the combo
\* box, compared in lower case.
SnapshotFormatFrom(text) ==
  CASE text = "JPEG" -> "SnapshotFormat::JPEG"
    [] text = "PNG" -> "SnapshotFormat::PNG"
    [] text = "" -> "SnapshotFormat::JPEG"
    [] OTHER -> "panic"

\* From<Option<GString>> for RecordFormat
RecordFormatFrom(text) ==
  CASE text = "H264/MP4" -> "RecordFormat::H264Mp4"
    [] text = "VP8/WebM" -> "RecordFormat::Vp8WebM"
    [] text = "" -> "RecordFormat::H264Mp4"
    [] OTHER -> "panic"

\* Values the five widgets of the settings dialog can hold.
WidgetValues ==
  [snapshot_directory : Dirs, snapshot_format : {"JPEG", "PNG"}, timer_length : 0..SpinMax,
   record_directory : Dirs, record_format : {"H264/MP4", "VP8/WebM"}]

\* show_settings_dialog fills the widgets from the loaded settings v; the
\* spin button keeps a value inside its range 0..SpinMax.
Populate(v) ==
  [snapshot_directory |-> v.snapshot_directory,
   snapshot_format |-> IF v.snapshot_format = "SnapshotFormat::JPEG" THEN "JPEG" ELSE "PNG",
   timer_length |-> IF v.timer_length > SpinMax THEN SpinMax ELSE v.timer_length,
   record_directory |-> v.record_directory,
   record_format |-> IF v.record_format = "RecordFormat::H264Mp4" THEN "H264/MP4" ELSE "VP8/WebM"]

\* The Settings value SettingsDialog::save_settings builds from widgets w.
WidgetSettings(w) ==
  [snapshot_directory |-> w.snapshot_directory,
   snapshot_format |-> SnapshotFormatFrom(w.snapshot_format),
   timer_length |-> w.timer_length,
   record_directory |-> w.record_directory,
   record_format |-> RecordFormatFrom(w.record_format)]

\* The settings dialog is opened, the timer length changed and the dialog
\* closed again: the change writes the file.  The spin button offers 0 to
\* MaxTimer here.
SaveSettings ==
  /\ UiReady
  /\ \E t \in 0..MaxTimer :
       LET v == WidgetSettings([Populate(LoadSettings) EXCEPT !.timer_length = t])
       IN /\ settingsFile # SerializeSettings(v)
          /\ settingsFile' = SerializeSettings(v)
          /\ lastSaved' = <<v>>
  /\ dialogs' = LoadWarns(dialogs)
  /\ UNCHANGED <<running, activated, faults, bus, lastSample, snapshotActive,
                 snapshotChecked, snapshotAction, timer, remaining, tickSources, overlayVisible,
                 overlayText, snapState, snapPath, nextSnap, snapHist, recVars, widgets, lastName, warnHist, sinkVars, fileVars>>

\* An element of the running pipeline posts an Error message on the bus.
PipelineError ==
  /\ running /\ pipelineState = "Playing" /\ faults < MaxFaults
  /\ bus' = Append(bus, [kind |-> "error", src |-> None, text |-> "Error"])
  /\ faults' = faults + 1
  /\ UNCHANGED <<running, activated, dialogs, snapVars, snapHist, recVars, setVars, warnHist, sinkVars, fileVars>>

Next ==
  \/ Activate
  \/ Shutdown
  \/ RecordToggleClick
  \/ StartRecordingAdd
  \/ StartRecordingRequestPad
  \/ StartRecordingLink
  \/ HandleStartError
  \/ \E p \in Bins : ProbeFire(p)
  \/ \E b \in Bins : SendEos(b)
  \/ \E b \in Bins : BinEos(b)
  \/ OnPipelineMessage
  \/ \E b \in Bins : RemoveAsync(b)
  \/ DialogResponse
  \/ PipelineError

Spec == Init /\ [][Next]_vars

\* Faulty variant of StateAfterStop: a pipeline that is already Null is
\* started again.
StateAfterStop_Toggle(g) ==
  IF g[1] = "Null"
    THEN <<"Playing", [b \in Bins |-> IF b \in inPipeline THEN "Playing" ELSE g[2][b]]>>
    ELSE <<"Null", [b \in Bins |-> IF b \in inPipeline THEN "Null" ELSE g[2][b]]>>

\* pipeline.set_state(Null) in Pipeline::stop, on the states g of the pipeline
\* and of the sub-graphs: the elements in the pipeline follow it.
StateAfterStop(g) ==
  <<"Null", [b \in Bins |-> IF b \in inPipeline THEN "Null" ELSE g[2][b]]>>

\* pipeline.set_state(Playing) in Pipeline::start.
StateAfterStart(g) ==
  <<"Playing", [b \in Bins |-> IF b \in inPipeline THEN "Playing" ELSE g[2][b]]>>

\* A call of Pipeline::start or Pipeline::stop on the UI thread that returns
\* Ok; lastCall notes whether it repeats the call before it on a pipeline
\* that nothing else has touched in between.
ApiCall(op) ==
  /\ running /\ uiPc = "idle" /\ lastCall.n < MaxCalls
  /\ LET g == <<pipelineState, binState>>
         h == IF op = "start" THEN StateAfterStart(g) ELSE StateAfterStop(g)
     IN /\ pipelineState' = h[1]
        /\ binState' = h[2]
        /\ lastCall' = [n |-> lastCall.n + 1, op |-> op, graph |-> h,
                        repeated |-> (lastCall.op = op /\ lastCall.graph = g)]
  /\ UNCHANGED <<running, activated, recording_bin, faults, inPipeline, teePads, padPeer, nextBin,
                 asyncVars, uiVars, histVars, snapVars, snapHist, setVars, warnHist, sinkVars, fileVars>>

\* The Pipeline object driven through its public interface: start and stop
\* at any time between the handlers of a recording session.
NextApi ==
  \/ ApiCall("start")
  \/ ApiCall("stop")
  \/ Activate
  \/ RecordToggleClick
  \/ StartRecordingAdd
  \/ StartRecordingRequestPad
  \/ StartRecordingLink
  \/ HandleStartError
  \/ DialogResponse

SpecApi == Init /\ [][NextApi]_vars

\* The snapshot session of the Pipeline revision: the application with the
\* snapshot toggle, the countdown, the settings dialog and the bus watch.
NextSnap ==
  \/ Activate
  \/ Shutdown
  \/ SnapshotToggleClick
  \/ TimerTick
  \/ \E s \in Snaps : ConversionDone(s)
  \/ FrameArrives
  \/ SaveSettings
  \/ PipelineError
  \/ OnPipelineMessage
  \/ DialogResponse

SpecSnap == Init /\ [][NextSnap]_vars

\* Scheduling: the main loop calls the closure of a registered timeout source
\* and dispatches the bus watch.
FairSpecSnap == SpecSnap /\ WF_vars(TimerTick) /\ WF_vars(OnPipelineMessage)

\* The wall clock reaches its next second; Local::now() in take_snapshot
\* reads it.
SecondPasses ==
  /\ running /\ wallClock < Len(ClockOrder)
  /\ wallClock' = wallClock + 1
  /\ UNCHANGED <<running, activated, faults, bus, dialogs, snapVars, snapHist, recVars, setVars,
                 warnHist, sinkVars, snapPath, borrowError>>

\* Snapshots and the files they are written to, with the wall clock running.
NextFiles ==
  \/ Activate
  \/ Shutdown
  \/ SnapshotToggleClick
  \/ TimerTick
  \/ \E s \in Snaps : ConversionDone(s)
  \/ FrameArrives
  \/ SecondPasses
  \/ OnPipelineMessage
  \/ DialogResponse

SpecFiles == Init /\ [][NextFiles]_vars

\* show_settings_dialog: load the settings, build the modal dialog and fill
\* its widgets.
OpenSettingsDialog ==
  /\ UiReady
  /\ widgets' = <<Populate(LoadSettings)>>
  /\ dialogs' = LoadWarns(dialogs)
  /\ UNCHANGED <<running, activated, faults, bus, snapVars, snapHist, recVars, lastSaved, lastName, warnHist, sinkVars, fileVars>>

\* utils::save_settings: serde_any::to_file writes the file; an Err is
\* printed to stderr and leaves the file as it was or without content.
SaveFile(v) ==
  IF Serializable(v)
    THEN settingsFile' = SerializeSettings(v)
    ELSE settingsFile' \in {settingsFile, CorruptFile}

\* The user changes one widget of the open settings dialog; the change
\* signal of the widget calls SettingsDialog::save_settings.  The spin button
\* is turned to 0..MaxTimer here.
ChangeWidget ==
  /\ running /\ widgets # <<>> /\ dialogs = <<>>
  /\ \E w \in WidgetValues :
       /\ w.timer_length # widgets[1].timer_length => w.timer_length <= MaxTimer
       /\ Cardinality({f \in DOMAIN w : w[f] # widgets[1][f]}) = 1
       /\ widgets' = <<w>>
       /\ lastSaved' = <<WidgetSettings(w)>>
       /\ SaveFile(WidgetSettings(w))
  /\ UNCHANGED <<running, activated, faults, bus, dialogs, lastSample, snapshotActive,
                 snapshotChecked, snapshotAction, timer, remaining, tickSources, overlayVisible,
                 overlayText, snapState, snapPath, nextSnap, snapHist, recVars, lastName, warnHist,
                 sinkVars, fileVars>>

\* The Close button of the settings dialog: the dialog is destroyed.
CloseSettingsDialog ==
  /\ running /\ widgets # <<>> /\ dialogs = <<>>
  /\ widgets' = <<>>
  /\ UNCHANGED <<running, activated, faults, bus, dialogs, snapVars, snapHist, recVars,
                 lastSaved, lastName, warnHist, sinkVars, fileVars>>

\* The file name computation of take_snapshot, applied to the loaded settings.
SnapshotName ==
  /\ UiReady
  /\ \E now \in Clock :
       lastName' = <<[kind |-> "snapshot", now |-> now, settings |-> LoadSettings,
                      path |-> SnapshotFileName(LoadSettings, now)]>>
  /\ dialogs' = LoadWarns(dialogs)
  /\ UNCHANGED <<running, activated, faults, bus, snapVars, snapHist, recVars, widgets, lastSaved, warnHist, sinkVars, fileVars>>

\* The file name computation of start_recording, applied to the loaded settings.
RecordingName ==
  /\ UiReady
  /\ \E now \in Clock :
       lastName' = <<[kind |-> "recording", now |-> now, settings |-> LoadSettings,
                      path |-> RecordingFileName(LoadSettings, now)]>>
  /\ dialogs' = LoadWarns(dialogs)
  /\ UNCHANGED <<running, activated, faults, bus, snapVars, snapHist, recVars, widgets, lastSaved, warnHist, sinkVars, fileVars>>

\* The settings of the application: the settings dialog and the settings
\* file.
NextSettings ==
  \/ Activate
  \/ Shutdown
  \/ OpenSettingsDialog
  \/ ChangeWidget
  \/ CloseSettingsDialog
  \/ DialogResponse

SpecSettings == Init /\ [][NextSettings]_vars

\* The output file names, computed from any settings file that can exist.
NextNames ==
  \/ Activate
  \/ SnapshotName
  \/ RecordingName
  \/ DialogResponse

\* The state after construction with any settings file that can exist.
InitNames == InitApp /\ settingsFile \in SettingsFiles

SpecNames == InitNames /\ [][NextNames]_vars

\* The video source ends its stream: the EOS event reaches the display sink
\* and, through the tee, every linked recording sub-graph that is Playing; the
\* display sink posts EOS, which the pipeline (message-forward) posts on the
\* bus as GstBinForwarded.
SourceEos ==
  /\ running /\ pipelineState = "Playing" /\ displaySink = "in_pipeline" /\ faults < MaxFaults
  /\ faults' = faults + 1
  /\ bus' = Append(bus, [kind |-> "eos", src |-> DisplaySink, text |-> ""])
  /\ eosState' = [b \in Bins |->
                    IF PeerPad(b) # NoPeer /\ binState[b] = "Playing" /\ eosState[b] = "none"
                      THEN "draining" ELSE eosState[b]]
  /\ UNCHANGED <<running, activated, recording_bin, graphVars, probes, eosAsync, removeAsync,
                 uiVars, histVars, snapVars, snapHist, lastCall, setVars, warnHist, sinkVars, fileVars>>

\* The call_async closure of on_pipeline_message for a forwarded EOS of the
\* display sink: pipeline.remove(&bin), then bin.set_state(Null); a refused
\* state change posts a warning on the bus.
RemoveSinkAsync ==
  /\ running /\ sinkRemoveAsync > 0
  /\ sinkRemoveAsync' = sinkRemoveAsync - 1
  /\ displaySink' = "removed"
  /\ \E ok \in BOOLEAN :
       /\ ok \/ faults < MaxFaults
       /\ IF ok
            THEN UNCHANGED <<bus, faults, posted>>
            ELSE /\ bus' = Append(bus, [kind |-> "warning", src |-> None,
                                        text |-> "Failed to stop recording"])
                 /\ posted' = Append(posted, "Failed to stop recording")
                 /\ faults' = faults + 1
  /\ UNCHANGED <<running, activated, recording_bin, graphVars, probes, eosAsync, removeAsync,
                 eosState, uiVars, histVars, snapVars, snapHist, lastCall, setVars, shown,
                 fileVars>>

\* The recording session with a video source that can end its stream.
NextEos ==
  \/ Activate
  \/ Shutdown
  \/ RecordToggleClick
  \/ StartRecordingAdd
  \/ StartRecordingRequestPad
  \/ StartRecordingLink
  \/ HandleStartError
  \/ \E p \in Bins : ProbeFire(p)
  \/ \E b \in Bins : SendEos(b)
  \/ \E b \in Bins : BinEos(b)
  \/ OnPipelineMessage
  \/ \E b \in Bins : RemoveAsync(b)
  \/ DialogResponse
  \/ SourceEos
  \/ RemoveSinkAsync

SpecEos == Init /\ [][NextEos]_vars

TypeOK ==
  /\ running \in BOOLEAN /\ activated \in BOOLEAN
  /\ pipelineState \in {"Null", "Playing"}
  /\ recording_bin \in Bins \cup {None}
  /\ nextBin \in 1..(MaxBins + 1)
  /\ binState \in [Bins -> {"None", "Playing", "Null", "Dropped"}]
  /\ inPipeline \subseteq Bins
  /\ teePads \subseteq Pads
  /\ padPeer \in [Pads -> Pads \cup {NoPeer}]
  /\ uiPc \in {"idle", "add", "request_pad", "link", "start_failed", "panicked"}
  /\ faults \in 0..MaxFaults
  /\ settingsFile \in SettingsFiles
  /\ lastSample \in BOOLEAN /\ timer \in BOOLEAN /\ overlayVisible \in BOOLEAN
  /\ snapshotActive \in BOOLEAN /\ snapshotChecked \in BOOLEAN /\ snapshotAction \in BOOLEAN
  /\ remaining \in 0..(SpinMax + 1)
  /\ overlayText \in 0..(SpinMax + 1)
  /\ Len(widgets) <= 1 /\ \A i \in DOMAIN widgets : widgets[i] \in WidgetValues
  /\ displaySink \in {"in_pipeline", "removed"} /\ sinkRemoveAsync \in 0..MaxFaults
  /\ Len(posted) <= MaxFaults /\ Len(shown) <= Len(posted)
  /\ Len(lastName) <= 1 /\ \A i \in DOMAIN lastName : lastName[i].path.dir \in Dirs
  /\ Len(lastSaved) <= 1 /\ \A i \in DOMAIN lastSaved : lastSaved[i] \in SettingsValues
  /\ tickSources \in 0..1
  /\ snapState \in [Snaps -> {"none", "converting", "written", "conv_failed", "write_failed"}]
  /\ nextSnap \in 1..(MaxPresses + 1)
  /\ presses \in 0..MaxPresses /\ snapCalls \in 0..MaxPresses
  /\ lastCall.n \in 0..MaxCalls /\ lastCall.op \in {"none", "start", "stop"}
  /\ wallClock \in DOMAIN ClockOrder
  /\ borrowError \in BOOLEAN
  /\ \A s \in Snaps : /\ Len(snapPath[s]) <= 1
                      /\ (snapPath[s] # <<>>) = (snapState[s] # "none")
                      /\ \A i \in DOMAIN snapPath[s] :
                           \E t \in Clock : snapPath[s][i] = SnapshotFileName(LoadSettings, t)


----
(***************************************************************************)
(* The App revision (src/src/main.rs, src/src/gstreamer.rs): the click     *)
(* handler of the record toggle works on the gst::Pipeline directly and    *)
(* finds the recording sub-graph by its name "record-bin".  The bus        *)
(* handler, the idle probe and the call_async closures are the same code   *)
(* as in the Pipeline revision.  It is specified by SpecApp.               *)
(***************************************************************************)

\* pipeline.get_by_name("record-bin")
RecordBin == IF inPipeline = {} THEN None ELSE CHOOSE b \in inPipeline : TRUE

\* App::stop_recording (gstreamer.rs), the else arm of
\* on_record_button_clicked (main.rs).
AppStopRecording(immediate) ==
  IF RecordBin = None
    THEN \* expect("Pipeline had no recording bin")
         /\ uiPc' = "panicked" /\ running' = FALSE
         /\ UNCHANGED <<padPeer, teePads, releaseCount, eosAsync, probes, probeCount,
                        stopRequested>>
    ELSE /\ UNCHANGED <<uiPc, running>>
         /\ IF PeerPad(RecordBin) = NoPeer
              THEN UNCHANGED <<padPeer, teePads, releaseCount, eosAsync, probes, probeCount,
                               stopRequested>>
              ELSE LET p == PeerPad(RecordBin) IN
                   /\ stopRequested' = stopRequested \cup {RecordBin}
                   /\ probeCount' = [probeCount EXCEPT ![p] = @ + 1]
                   /\ IF immediate
                        THEN ProbeCallback(p) /\ UNCHANGED probes
                        ELSE /\ probes' = [probes EXCEPT ![p] = @ + 1]
                             /\ UNCHANGED <<padPeer, teePads, releaseCount, eosAsync>>

\* Faulty variant of AppStartRecordingBegin: a sub-graph is built without
\* looking for an element named record-bin first.
AppStartRecordingBegin_NoCheck ==
  /\ recordChecked' = TRUE
  /\ nextBin <= MaxBins
  /\ \E outcome \in {"ok", "err_build", "err_state"} :
       /\ outcome = "ok" \/ faults < MaxFaults
       /\ faults' = IF outcome = "ok" THEN faults ELSE faults + 1
       /\ IF outcome = "err_build"
            THEN UNCHANGED <<nextBin, binState, curBin>>
            ELSE /\ nextBin' = nextBin + 1
                 /\ binState' = [binState EXCEPT ![nextBin] =
                                   IF outcome = "ok" THEN "Playing" ELSE "Dropped"]
                 /\ curBin' = IF outcome = "ok" THEN nextBin ELSE curBin
       /\ dialogs' = IF outcome = "ok" THEN dialogs
                     ELSE Append(dialogs, Dialog(FALSE, "Failed to start recording"))
       /\ uiPc' = IF outcome = "ok" THEN "add" ELSE "idle"

\* App::start_recording (gstreamer.rs) up to bin.set_state(Playing).
AppStartRecordingBegin ==
  IF RecordBin # None
    THEN \* still finishing the previous one: clear the CHECKED flag, return
         /\ recordChecked' = FALSE
         /\ UNCHANGED <<nextBin, binState, curBin, uiPc, dialogs, faults>>
    ELSE /\ recordChecked' = TRUE
         /\ nextBin <= MaxBins
         /\ \E outcome \in {"ok", "err_build", "err_state"} :
              /\ outcome = "ok" \/ faults < MaxFaults
              /\ faults' = IF outcome = "ok" THEN faults ELSE faults + 1
              /\ IF outcome = "err_build"
                   THEN UNCHANGED <<nextBin, binState, curBin>>
                   ELSE /\ nextBin' = nextBin + 1
                        /\ binState' = [binState EXCEPT ![nextBin] =
                                          IF outcome = "ok" THEN "Playing" ELSE "Dropped"]
                        /\ curBin' = IF outcome = "ok" THEN nextBin ELSE curBin
              /\ dialogs' = IF outcome = "ok" THEN dialogs
                            ELSE Append(dialogs, Dialog(FALSE, "Failed to start recording"))
              /\ uiPc' = IF outcome = "ok" THEN "add" ELSE "idle"

\* A click on the record toggle: the button flips (active and CHECKED), then
\* its clicked handler App::on_record_button_clicked runs.
AppRecordClick ==
  /\ UiReady
  /\ recordActive' = ~recordActive
  /\ IF ~recordActive
       THEN /\ AppStartRecordingBegin
            /\ UNCHANGED <<running, padPeer, teePads, releaseCount, eosAsync, probes,
                           probeCount, stopRequested>>
       ELSE /\ RecordBin # None /\ PeerPad(RecordBin) # NoPeer
               => probeCount[PeerPad(RecordBin)] < MaxProbes
            /\ \E immediate \in BOOLEAN : AppStopRecording(immediate)
            /\ recordChecked' = FALSE
            /\ UNCHANGED <<nextBin, binState, curBin, dialogs, faults>>
  /\ UNCHANGED <<activated, recording_bin, pipelineState, inPipeline, removeAsync, eosState, bus,
                 startResult, recordAction, wasLinked, eosHandled, eosCount>>
  /\ UNCHANGED <<snapVars, snapHist, lastCall, setVars, warnHist, sinkVars, wallClock, snapPath>>
  /\ borrowError' = (borrowError \/ DoubleBorrow(AppRecordClickCells))

\* App::start_recording: srcpad.link(&sinkpad); on failure an error dialog is
\* shown and the bin is rolled back.
AppStartRecordingLink ==
  /\ running /\ uiPc = "link"
  /\ \E ok \in BOOLEAN :
       /\ ok \/ faults < MaxFaults
       /\ IF ok
            THEN /\ padPeer' = [padPeer EXCEPT ![curBin] = curBin]
                 /\ wasLinked' = wasLinked \cup {curBin}
                 /\ UNCHANGED <<inPipeline, binState, faults, dialogs>>
            ELSE /\ dialogs' = Append(dialogs, Dialog(FALSE, "Failed to link recording bin"))
                 /\ inPipeline' = inPipeline \ {curBin}
                 /\ binState' = [binState EXCEPT ![curBin] = "Null"]
                 /\ faults' = faults + 1
                 /\ UNCHANGED <<padPeer, wasLinked>>
  /\ uiPc' = "idle"
  /\ UNCHANGED <<running, activated, recording_bin, pipelineState, teePads, nextBin, asyncVars,
                 curBin, startResult, recordActive, recordChecked, recordAction, stopRequested,
                 eosHandled, probeCount, releaseCount, eosCount>>
  /\ UNCHANGED <<snapVars, snapHist, lastCall, setVars, warnHist, sinkVars, fileVars>>

\* App::on_activate (main.rs): a pipeline that does not reach Playing stores
\* the error and quits the application, which runs on_shutdown.
AppActivate ==
  /\ running /\ uiPc = "idle"
  /\ activated' = TRUE
  /\ \E ok \in BOOLEAN :
       /\ ok \/ (pipelineState # "Playing" /\ faults < MaxFaults)
       /\ IF ok
            THEN /\ pipelineState' = "Playing"
                 /\ UNCHANGED <<running, binState, faults>>
            ELSE /\ running' = FALSE
                 /\ PipelineStop
                 /\ faults' = faults + 1
  /\ UNCHANGED <<recording_bin, inPipeline, teePads, padPeer, nextBin, asyncVars, uiVars,
                 histVars>>
  /\ UNCHANGED <<snapVars, snapHist, lastCall, setVars, warnHist, sinkVars, wallClock, snapPath>>
  /\ borrowError' = (borrowError \/ DoubleBorrow(AppActivateCells))

\* A click on the snapshot toggle in the App revision: the button flips
\* (active and CHECKED), then its clicked handler
\* App::on_snapshot_button_clicked (main.rs) runs; take_snapshot is
\* App::take_snapshot (gstreamer.rs).
AppSnapshotClick ==
  /\ UiReady
  /\ snapshotActive' = ~snapshotActive
  /\ IF timer
       THEN \* a countdown is running: cancel it
            /\ timer' = FALSE
            /\ tickSources' = tickSources - 1
            /\ overlayVisible' = FALSE
            /\ snapshotChecked' = ~snapshotActive
            /\ UNCHANGED <<remaining, overlayText, snapState, snapPath, nextSnap, faults, dialogs, snapHist>>
       ELSE /\ presses < MaxPresses
            /\ presses' = presses + 1
            /\ pressCalls' = snapCalls
            /\ ticks' = 0
            /\ countLen' = LoadSettings.timer_length
            /\ IF LoadSettings.timer_length = 0
                 THEN /\ snapshotChecked' = FALSE
                      /\ TakeSnapshot(dialogs)
                      /\ UNCHANGED <<timer, remaining, tickSources, overlayVisible, overlayText>>
                 ELSE /\ snapshotChecked' = ~snapshotActive
                      /\ overlayVisible' = TRUE
                      /\ overlayText' = LoadSettings.timer_length
                      /\ remaining' = LoadSettings.timer_length
                      /\ tickSources' = tickSources + 1
                      /\ timer' = TRUE
                      /\ UNCHANGED <<snapState, snapPath, nextSnap, faults, dialogs, snapCalls>>
  /\ UNCHANGED <<running, activated, bus, settingsFile, lastSample, snapshotAction, recVars, setVars, warnHist, sinkVars, wallClock>>
  /\ borrowError' = (borrowError \/ DoubleBorrow(AppSnapshotClickCells(timer, LoadSettings.timer_length)))

\* The closure given to gtk::timeout_add in on_snapshot_button_clicked.  The
\* decrement of a u32 that is 0 panics in a debug build and wraps in a release
\* build; -1 stands for the wrapped value u32::MAX.
AppTimerTick ==
  /\ running /\ uiPc = "idle" /\ tickSources > 0
  /\ ticks' = ticks + 1
  /\ \E build \in {"debug", "release"} :
       IF remaining = 0 /\ build = "debug"
         THEN /\ running' = FALSE
              /\ uiPc' = "panicked"
              /\ UNCHANGED <<snapshotChecked, timer, remaining, tickSources, overlayVisible,
                             overlayText, snapState, snapPath, nextSnap, snapCalls, dialogs, faults>>
         ELSE /\ UNCHANGED <<running, uiPc>>
              /\ remaining' = remaining - 1
              /\ IF remaining = 1
                   THEN /\ overlayVisible' = FALSE
                        /\ snapshotChecked' = FALSE
                        /\ timer' = FALSE
                        /\ tickSources' = tickSources - 1
                        /\ TakeSnapshot(dialogs)
                        /\ UNCHANGED overlayText
                   ELSE /\ overlayText' = remaining - 1
                        /\ UNCHANGED <<snapshotChecked, timer, tickSources, overlayVisible,
                                       snapState, snapPath, nextSnap, snapCalls, dialogs, faults>>
  /\ UNCHANGED <<activated, bus, settingsFile, lastSample, snapshotActive, snapshotAction,
                 presses, pressCalls, countLen, recording_bin, graphVars, probes, eosAsync,
                 removeAsync, eosState, curBin, startResult, recordActive, recordChecked,
                 recordAction, histVars, lastCall, setVars, warnHist, sinkVars, wallClock>>
  /\ borrowError' = (borrowError \/ DoubleBorrow(AppTimerTickCells(remaining - 1)))

NextApp ==
  \/ AppActivate
  \/ Shutdown
  \/ AppRecordClick
  \/ StartRecordingAdd
  \/ StartRecordingRequestPad
  \/ AppStartRecordingLink
  \/ \E p \in Bins : ProbeFire(p)
  \/ \E b \in Bins : SendEos(b)
  \/ \E b \in Bins : BinEos(b)
  \/ OnPipelineMessage
  \/ \E b \in Bins : RemoveAsync(b)
  \/ DialogResponse

SpecApp == Init /\ [][NextApp]_vars

\* The snapshot session of the App revision.
NextSnapApp ==
  \/ AppActivate
  \/ Shutdown
  \/ AppSnapshotClick
  \/ AppTimerTick
  \/ \E s \in Snaps : ConversionDone(s)
  \/ FrameArrives
  \/ SaveSettings
  \/ PipelineError
  \/ OnPipelineMessage
  \/ DialogResponse

SpecSnapApp == Init /\ [][NextSnapApp]_vars

\* Scheduling: the main loop runs a started handler to its end and dispatches
\* the bus watch; streaming and worker threads run what was handed to them.
FairSpec ==
  /\ Spec
  /\ WF_vars(StartRecordingAdd) /\ WF_vars(StartRecordingRequestPad)
  /\ WF_vars(StartRecordingLink) /\ WF_vars(HandleStartError)
  /\ WF_vars(OnPipelineMessage)
  /\ \A b \in Bins : WF_vars(ProbeFire(b)) /\ WF_vars(SendEos(b))
                     /\ WF_vars(BinEos(b)) /\ WF_vars(RemoveAsync(b))

----
\* Vocabulary of the properties

StartErrors == {"err_build", "err_state", "err_link"}

\* Number of open dialogs with the given text.
NumDialogs(d, text) == Cardinality({i \in 1..Len(d) : d[i].text = text})

\* Snapshot files whose asynchronous conversion has been started and has not
\* called back yet.
InFlight == {s \in Snaps : snapState[s] = "converting"}

\* take_snapshot invocations since the last snapshot request.
Shots == snapCalls - pressCalls

\* The branch of sub-graph b is gone: pad unlinked and released, bin removed
\* from the pipeline and set to Null.
Removed(b) ==
  /\ b \notin teePads /\ padPeer[b] = NoPeer
  /\ b \notin inPipeline /\ binState[b] = "Null"

\* State of the branch of sub-graph b (spec 4.1), read off the pipeline.
Phase(b) ==
  CASE binState[b] = "None" -> "NotBuilt"
    [] binState[b] = "Dropped" -> "Failed"
    [] b \notin wasLinked /\ b \in inPipeline -> "Requested"
    [] b \notin wasLinked /\ binState[b] = "Null" -> "Failed"
    [] b \notin wasLinked -> "Built"
    [] b \notin inPipeline -> "Removed"
    [] b \notin teePads -> "Draining"
    [] OTHER -> "Linked"

PhaseSteps ==
  { <<"NotBuilt", "Built">>, <<"NotBuilt", "Failed">>, <<"Built", "Requested">>,
    <<"Requested", "Failed">>, <<"Requested", "Linked">>, <<"Linked", "Draining">>,
    <<"Draining", "Removed">> }

----
\* C1: at most one recording sub-graph is present in the pipeline, whatever
\* the sequence of start_recording, stop_recording, probe firings and
\* forwarded EOS deliveries.
C1_AtMostOneBranch == Cardinality(inPipeline) <= 1

C3_DrainedBeforeNull ==
  \A b \in wasLinked : binState[b] = "Null" => eosState[b] = "posted"

\* C4: while the application runs, a linked recording sub-graph is removed
\* from the pipeline or set to Null only after its forwarded EOS has been
\* handled by on_pipeline_message.
C4_RemovalOnlyAfterForwardedEos ==
  running =>
    \A b \in wasLinked : (b \notin inPipeline \/ binState[b] = "Null") => b \in eosHandled

C4_Witness ==
  running /\ \E b \in wasLinked : b \notin inPipeline /\ binState[b] = "Null"

C6_StopWithoutSessionIsNoop ==
  [][(uiPc = "start_failed" /\ uiPc' = "idle" /\ recording_bin = None) =>
       UNCHANGED <<recording_bin, graphVars, asyncVars, probeCount, releaseCount, eosCount,
                   stopRequested>>]_vars

C6_Witness ==
  /\ uiPc = "idle" /\ startResult \in StartErrors /\ recording_bin = None
  /\ dialogs # <<>> /\ dialogs[Len(dialogs)].text = "Failed to start recording"
  /\ \E b \in Bins : probes[b] = 1 /\ probeCount[b] = 1

\* C7: a second stop request for a recording that is still draining is a
\* no-op: over its whole life a branch gets one idle probe, one release of its
\* tee pad and one EOS.
C7_SecondStopIsNoop ==
  \A b \in Bins : probeCount[b] <= 1 /\ releaseCount[b] <= 1 /\ eosCount[b] <= 1

\* C8: with a new start_recording issued before the old sub-graph has
\* drained, the preview stays linked to the tee, the pipeline stays Playing,
\* and teardown touches only the pad and bin of a stopped branch: the live
\* session and the branch under construction stay intact.
C8_PreviewAndNewBranchIntact ==
  /\ PreviewPad \in teePads /\ padPeer[PreviewPad] = PreviewSink
  /\ (running /\ nextBin > 1) => pipelineState = "Playing"
  /\ recording_bin # None =>
       /\ recording_bin \in inPipeline /\ recording_bin \in teePads
       /\ padPeer[recording_bin] = recording_bin
       /\ running => binState[recording_bin] = "Playing"
  /\ uiPc \in {"request_pad", "link"} => curBin \in inPipeline
  /\ uiPc = "link" => curBin \in teePads
  /\ \A b \in Bins : (releaseCount[b] > 0 \/ b \in eosHandled) => b \in stopRequested

C8_Witness ==
  /\ recording_bin # None
  /\ \E old \in stopRequested : old < recording_bin /\ Removed(old) /\ old \in eosHandled

\* C9: when the link fails in start_recording the sub-graph is removed from
\* the pipeline and set to Null, Err is returned and recording_bin is as it
\* was before the call.
C9_LinkFailureRollsBack ==
  [][/\ (uiPc = "link" /\ uiPc' # uiPc /\ startResult' = "err_link") =>
          /\ curBin \notin inPipeline' /\ binState'[curBin] = "Null"
          /\ uiPc' = "start_failed"
          /\ recording_bin' = recording_bin
     /\ uiPc \in {"add", "request_pad"} => recording_bin' = recording_bin]_vars

C9_Witness ==
  /\ uiPc = "start_failed" /\ startResult = "err_link"
  /\ curBin \notin inPipeline /\ binState[curBin] = "Null" /\ recording_bin = None

\* C10: whenever start_recording fails (build, state change or link) a
\* non-fatal error dialog is shown, no recording session exists afterwards,
\* the record toggle ends un-pressed and the application keeps running.
C10_StartFailureHandled ==
  /\ [](\A i \in 1..Len(dialogs) :
          dialogs[i].text = "Failed to start recording" => ~dialogs[i].fatal)
  /\ [](uiPc = "start_failed" => startResult \in StartErrors /\ running)
  /\ [][(uiPc = "start_failed" /\ uiPc' # uiPc) =>
          /\ dialogs' = Append(dialogs, Dialog(FALSE, "Failed to start recording"))
          /\ recording_bin' = None
          /\ ~recordActive'
          /\ running' /\ uiPc' = "idle"]_vars

C10_Witness ==
  /\ running /\ uiPc = "idle" /\ startResult = "err_state"
  /\ ~recordActive /\ recording_bin = None
  /\ dialogs = <<Dialog(FALSE, "Failed to start recording")>>

\* C11: in the App revision a start request (click that presses the record
\* toggle) made while an element named record-bin is in the pipeline, a
\* draining one included, adds no bin, requests no tee pad, raises no error
\* and leaves the record toggle un-checked.
C11_StartWhileRecordBinRejected ==
  [][(~recordActive /\ recordActive' /\ RecordBin # None) =>
       /\ UNCHANGED <<graphVars, asyncVars, dialogs, running, uiPc, faults, histVars>>
       /\ ~recordChecked']_vars

C11_Witness ==
  /\ running /\ uiPc = "idle" /\ recordActive /\ ~recordChecked
  /\ RecordBin # None /\ RecordBin \in stopRequested /\ RecordBin \notin eosHandled
  /\ nextBin = RecordBin + 1 /\ dialogs = <<>>

\* C12: take_snapshot called while the display sink has no last sample
\* returns Ok without creating a file, starting a conversion or posting a
\* warning on the bus.
C12_NoSampleNoop ==
  [][(snapCalls' = snapCalls + 1 /\ ~lastSample) =>
       /\ UNCHANGED <<snapState, snapPath, nextSnap, bus, faults, running>>
       /\ NumDialogs(dialogs', "Failed to take snapshot")
            = NumDialogs(dialogs, "Failed to take snapshot")]_vars

C12_Witness ==
  /\ running /\ activated /\ pipelineState = "Playing" /\ ~lastSample
  /\ snapCalls = 1 /\ nextSnap = 1 /\ InFlight = {} /\ bus = <<>> /\ dialogs = <<>>

\* C13: at most one asynchronous snapshot conversion is in flight, whatever
\* the sequence of snapshot requests (immediate with timer length 0, or by
\* countdown expiry).
C13_OneConversionInFlight == Cardinality(InFlight) <= 1

\* C14: a failure inside a snapshot never ends the application and is shown
\* as a non-fatal dialog: a file that cannot be created makes the caller of
\* take_snapshot open one; a failed or timed-out conversion and a failed write
\* post an application warning on the bus, which the bus watch shows.
C14_SnapshotFailuresNonFatal ==
  /\ [](\A i \in 1..Len(dialogs) :
          dialogs[i].text \in {"Failed to take snapshot", "Failed to convert sample",
                                "Failed to write snapshot file"} => ~dialogs[i].fatal)
  /\ [][/\ (\E s \in Snaps : /\ snapState[s] = "converting"
                                /\ snapState'[s] \in {"conv_failed", "write_failed"}) =>
             /\ Len(bus') = Len(bus) + 1 /\ bus'[Len(bus')].kind = "warning"
             /\ SubSeq(bus', 1, Len(bus)) = bus
             /\ running' /\ dialogs' = dialogs
        /\ NumDialogs(dialogs', "Failed to take snapshot")
             > NumDialogs(dialogs, "Failed to take snapshot") =>
             /\ running' = running
             /\ dialogs'[Len(dialogs')] = Dialog(FALSE, "Failed to take snapshot")
             /\ UNCHANGED <<snapState, snapPath, nextSnap, bus>>
        /\ (bus # <<>> /\ bus' = Tail(bus) /\ Head(bus).kind = "warning") =>
             /\ dialogs' = Append(dialogs, Dialog(FALSE, Head(bus).text))
             /\ running'
        /\ (Len(dialogs') < Len(dialogs) /\ ~dialogs[Len(dialogs)].fatal) =>
             running']_vars

C14_Witness ==
  /\ running
  /\ dialogs = <<Dialog(FALSE, "Failed to take snapshot"),
                 Dialog(FALSE, "Failed to convert sample")>>
  /\ \E s \in Snaps : snapState[s] \in {"conv_failed", "write_failed"}

\* C15: un-pressing the snapshot toggle while a countdown runs, at whatever
\* tick, removes the tick source at once: the timer is absent, the overlay
\* hidden, no further tick fires and take_snapshot is not invoked for that
\* countdown.
C15_CancelStopsCountdown ==
  /\ [][(timer /\ ~timer' /\ ticks' = ticks) =>
          /\ tickSources' = 0 /\ ~overlayVisible'
          /\ snapCalls' = snapCalls /\ UNCHANGED <<snapState, snapPath, nextSnap>>]_vars
  /\ [][ticks' = ticks + 1 => timer /\ tickSources = 1]_vars
  /\ [](tickSources = IF timer THEN 1 ELSE 0)
  /\ []((~timer /\ ticks < countLen) => (Shots = 0 /\ ~overlayVisible))

C15_Witness ==
  /\ running /\ ~timer /\ tickSources = 0 /\ ~overlayVisible
  /\ countLen = MaxTimer /\ ticks = MaxTimer - 1 /\ Shots = 0

\* C16: with timer length 0 in the settings, pressing the snapshot toggle
\* invokes take_snapshot once, in the handler of the click, creates no timer,
\* registers no tick source, leaves the overlay hidden, and the toggle ends
\* un-pressed; no further take_snapshot follows until the next request.
C16_ImmediateSnapshot ==
  /\ [][(presses' = presses + 1 /\ LoadSettings.timer_length = 0) =>
          /\ snapCalls' = snapCalls + 1
          /\ ~timer' /\ tickSources' = 0
          /\ ~overlayVisible' /\ overlayText' = overlayText
          /\ ~snapshotActive' /\ ~snapshotChecked']_vars
  /\ []((presses > 0 /\ countLen = 0) =>
          (Shots = 1 /\ ~timer /\ tickSources = 0 /\ ~overlayVisible /\ ~snapshotActive))

C16_Witness ==
  /\ running /\ presses = 1 /\ countLen = 0 /\ snapCalls = 1 /\ Shots = 1
  /\ ~snapshotActive /\ ~timer /\ ~overlayVisible /\ InFlight = {1}

\* C17: a countdown started with length N > 0 and not cancelled shows N, then
\* N - 1, ..., 1 on the overlay, invokes take_snapshot once, on the N-th tick
\* and not before, and then is idle: timer absent, overlay hidden, toggle
\* un-pressed, no tick source left; while the application runs a countdown
\* always comes to its end.
C17_CountdownRunsToSnapshot ==
  /\ [](timer => /\ overlayVisible /\ overlayText = remaining
                 /\ remaining = countLen - ticks /\ remaining >= 1
                 /\ Shots = 0 /\ tickSources = 1 /\ snapshotActive)
  /\ []((~timer /\ countLen > 0 /\ ticks = countLen) =>
          (Shots = 1 /\ tickSources = 0 /\ ~overlayVisible /\ ~snapshotActive))
  /\ [][/\ (presses' = presses + 1 /\ LoadSettings.timer_length > 0) =>
             /\ timer' /\ remaining' = LoadSettings.timer_length
             /\ overlayVisible' /\ overlayText' = LoadSettings.timer_length
             /\ snapCalls' = snapCalls
        /\ ticks' = ticks + 1 =>
             IF ticks' = countLen
               THEN /\ snapCalls' = snapCalls + 1
                    /\ ~timer' /\ tickSources' = 0 /\ ~overlayVisible'
                    /\ ~snapshotActive' /\ ~snapshotChecked'
               ELSE /\ snapCalls' = snapCalls
                    /\ timer' /\ overlayVisible' /\ overlayText' = countLen - ticks']_vars
  /\ timer ~> (~timer \/ ~running)

C17_Witness ==
  /\ running /\ ~timer /\ countLen = MaxTimer /\ ticks = MaxTimer /\ Shots = 1
  /\ tickSources = 0 /\ ~overlayVisible /\ ~snapshotActive /\ overlayText = 1

\* C18 (as claimed): the dialog of a pipeline Error message observed after
\* the pipeline reached Playing is not fatal, so that it never makes the
\* application quit.
C18_ErrorDialogNonFatal ==
  \A i \in 1..Len(dialogs) : dialogs[i].text = "Error" => ~dialogs[i].fatal

\* C18 (amended): a pipeline Error message observed after the pipeline
\* reached Playing opens a fatal error dialog; the application keeps running
\* while the dialog is open and quits, stopping the pipeline, when the dialog
\* is closed.
C18_ErrorDialogFatal ==
  /\ [](\A i \in 1..Len(dialogs) : dialogs[i].text = "Error" => dialogs[i].fatal)
  /\ [][/\ (bus # <<>> /\ bus' = Tail(bus) /\ Head(bus).kind = "error") =>
             /\ dialogs' = Append(dialogs, Dialog(TRUE, "Error"))
             /\ running' /\ pipelineState' = pipelineState
        /\ (Len(dialogs') < Len(dialogs) /\ dialogs[Len(dialogs)].text = "Error") =>
             /\ ~running' /\ pipelineState' = "Null"]_vars

C18_Witness ==
  /\ running /\ pipelineState = "Playing" /\ recording_bin # None
  /\ dialogs = <<Dialog(TRUE, "Error")>>

\* C19: Pipeline::start and Pipeline::stop are idempotent: over every
\* sequence of calls, start leaves the pipeline and the sub-graphs in it
\* Playing and stop leaves them Null, and a call that repeats the call before
\* it changes nothing.
C19_StartStopIdempotent ==
  /\ [](LET g == <<pipelineState, binState>> IN
          /\ StateAfterStart(StateAfterStart(g)) = StateAfterStart(g)
          /\ StateAfterStop(StateAfterStop(g)) = StateAfterStop(g))
  /\ [][lastCall'.n = lastCall.n + 1 =>
          /\ pipelineState' = (IF lastCall'.op = "start" THEN "Playing" ELSE "Null")
          /\ \A b \in inPipeline : binState'[b] = pipelineState'
          /\ lastCall'.repeated => UNCHANGED <<running, recording_bin, graphVars, asyncVars>>]_vars

C19_Witness ==
  /\ lastCall.op = "stop" /\ lastCall.repeated /\ recording_bin # None
  /\ lastCall.graph = <<pipelineState, binState>>
  /\ pipelineState = "Null" /\ binState[recording_bin] = "Null"

\* C20 (as claimed): a load_settings call (here the one of a snapshot
\* request) that finds the settings file missing or unparsable opens a
\* warning dialog.
C20_LoadFailureWarns ==
  [][(presses' = presses + 1 /\ settingsFile.status # "valid") =>
       NumDialogs(dialogs', "Error when opening settings")
         > NumDialogs(dialogs, "Error when opening settings")]_vars

\* C20 (amended): load_settings returns the defaults when the settings file
\* is missing or does not parse and the file's values otherwise; it opens a
\* non-fatal dialog only for a file that exists and does not parse, none for
\* a missing file, and its caller (here a snapshot request) goes on with the
\* returned settings.
C20_LoadFailureDefaults ==
  /\ [](\A i \in 1..Len(dialogs) :
          dialogs[i].text = "Error when opening settings" => ~dialogs[i].fatal)
  /\ [][presses' = presses + 1 =>
          /\ running'
          /\ countLen' = IF settingsFile.status = "valid" THEN settingsFile.timer_length
                          ELSE DefaultTimerLength
          /\ countLen' > 0 => (timer' /\ remaining' = countLen')
          /\ settingsFile.status = "corrupt" =>
               dialogs' = Append(dialogs, Dialog(FALSE, "Error when opening settings"))
          /\ settingsFile.status = "missing" => dialogs' = dialogs]_vars

C20_Witness ==
  /\ running /\ settingsFile.status = "corrupt"
  /\ timer /\ remaining = DefaultTimerLength /\ countLen = DefaultTimerLength
  /\ dialogs = <<Dialog(FALSE, "Error when opening settings")>>

\* C21: after the settings dialog saved a Settings value, loading the settings
\* yields the same value in all five fields.
C21_SettingsRoundTrip ==
  lastSaved # <<>> => LoadSettings = lastSaved[1]

\* C22: the timer length a snapshot countdown starts with is an integer in
\* 0..15, whatever settings file was loaded.
C22_TimerLengthInRange ==
  /\ countLen \in 0..SpinMax
  /\ timer => remaining \in 0..SpinMax

\* The date and time of a file name as the specification writes it,
\* <YYYY-MM-DD HH:MM:SS> with the three fields of the time joined by sep.
DateTime(now, sep) ==
  ToString(now.year) \o "-" \o (IF now.month < 10 THEN "0" ELSE "") \o ToString(now.month)
    \o "-" \o (IF now.day < 10 THEN "0" ELSE "") \o ToString(now.day)
    \o " " \o (IF now.hour < 10 THEN "0" ELSE "") \o ToString(now.hour)
    \o sep \o (IF now.minute < 10 THEN "0" ELSE "") \o ToString(now.minute)
    \o sep \o (IF now.second < 10 THEN "0" ELSE "") \o ToString(now.second)

\* The extension the specification gives for a configured format.
ExtensionOf(f) ==
  CASE f = "SnapshotFormat::JPEG" -> "jpg"
    [] f = "SnapshotFormat::PNG" -> "png"
    [] f = "RecordFormat::H264Mp4" -> "mp4"
    [] f = "RecordFormat::Vp8WebM" -> "webm"

\* The output file path n has the specified form, the time written with sep.
NameHasForm(n, sep) ==
  IF n.kind = "snapshot"
    THEN /\ n.path.dir = n.settings.snapshot_directory
         /\ n.path.file = "Snapshot " \o DateTime(n.now, sep) \o "."
                            \o ExtensionOf(n.settings.snapshot_format)
    ELSE /\ n.path.dir = n.settings.record_directory
         /\ n.path.file = "Recording " \o DateTime(n.now, sep) \o "."
                            \o ExtensionOf(n.settings.record_format)

\* C23 as stated: an output file is named "Snapshot <YYYY-MM-DD HH:MM:SS>.<ext>"
\* or "Recording <YYYY-MM-DD HH:MM:SS>.<ext>", the time separated by colons, lies
\* in the configured directory and has the extension of the configured format.
C23_FileNamesColons ==
  \A i \in DOMAIN lastName : NameHasForm(lastName[i], ":")

\* C23 amended: the same form with the time of day separated by dashes,
\* <YYYY-MM-DD HH-MM-SS>.
C23_FileNamesDashes ==
  \A i \in DOMAIN lastName : NameHasForm(lastName[i], "-")

\* A PNG snapshot named in the Videos directory at a time with one-digit fields.
C23_Witness ==
  /\ lastName # <<>>
  /\ lastName[1].path = [dir |-> VideosDir, file |-> "Snapshot 2018-11-09 07-05-03.png"]
  /\ lastName[1].settings.snapshot_format = "SnapshotFormat::PNG"

\* C24: EOS is sent into a sub-graph only after the idle probe of its tee pad
\* has fired and the pad has been unlinked and released, never while the
\* branch is linked to the tee; the step that sends it is the deferred
\* call_async closure: it is neither the step that runs the probe closure nor
\* a step of the handler that called stop_recording.
C24_EosAfterDetach ==
  [][\A b \in Bins :
       eosCount'[b] > eosCount[b] =>
         /\ probeCount[b] > 0 /\ releaseCount[b] > 0
         /\ b \notin teePads /\ PeerPad(b) = NoPeer
         /\ eosAsync[b] > 0 /\ eosAsync'[b] = eosAsync[b] - 1
         /\ UNCHANGED <<probes, probeCount, releaseCount, padPeer, teePads>>
         /\ UNCHANGED <<uiPc, recording_bin, recordActive, stopRequested>>]_vars

\* An EOS has been sent into a sub-graph whose tee pad was released.
C24_Witness ==
  \E b \in Bins :
    /\ eosCount[b] = 1 /\ eosState[b] = "draining"
    /\ releaseCount[b] = 1 /\ b \notin teePads /\ b \in inPipeline

\* Executions of the idle probe closure for the tee pad of sub-graph b: the
\* probes installed that are no longer pending.
ProbeRuns(b) == probeCount[b] - probes[b]

\* C25: for each recording sub-graph the detach sequence runs once: the probe
\* closure executes at most once, each execution releases the tee pad once and
\* accounts for one EOS (queued or sent), however many stop requests are made.
C25_DetachRunsOnce ==
  \A b \in Bins :
    /\ ProbeRuns(b) <= 1
    /\ releaseCount[b] = ProbeRuns(b)
    /\ eosCount[b] + eosAsync[b] = ProbeRuns(b)

\* C26: a sub-graph is Playing before it is added to the pipeline and before
\* a tee pad is requested for it or linked to it, and it is added before the
\* pad is requested; when setting it to Playing fails, neither that step nor
\* the handling of the error changes the live pipeline: no element added, no
\* tee pad requested or linked, the preview still running.
C26_StartedBeforeAttached ==
  [][/\ \A b \in Bins :
          /\ (b \in inPipeline' /\ b \notin inPipeline) =>
               binState[b] = "Playing" /\ b \notin teePads /\ PeerPad(b) = NoPeer
          /\ (b \in teePads' /\ b \notin teePads) =>
               binState[b] = "Playing" /\ b \in inPipeline
          /\ (padPeer'[b] = b /\ padPeer[b] # b) =>
               binState[b] = "Playing" /\ b \in inPipeline
     /\ (\/ uiPc = "idle" /\ uiPc' = "start_failed" /\ startResult' = "err_state"
         \/ uiPc = "start_failed" /\ uiPc' = "idle" /\ startResult = "err_state") =>
          /\ UNCHANGED <<inPipeline, teePads, padPeer, pipelineState>>
          /\ \A b \in Bins : binState'[b] # binState[b] => binState'[b] = "Dropped"]_vars

\* Setting a second sub-graph to Playing has failed while the first one is
\* still attached: the pipeline runs, with the first sub-graph only.
C26_Witness ==
  /\ uiPc = "start_failed" /\ startResult = "err_state"
  /\ pipelineState = "Playing" /\ padPeer[PreviewPad] = PreviewSink
  /\ binState[2] = "Dropped" /\ inPipeline = {1} /\ teePads \subseteq {PreviewPad, 1}

\* A step of a streaming thread: a pending idle probe fires.
StreamingThreadStep == \E p \in Bins : probes'[p] < probes[p]

\* A step of a worker thread: a closure queued with call_async runs.
WorkerThreadStep == \E b \in Bins : eosAsync'[b] < eosAsync[b] \/ removeAsync'[b] < removeAsync[b]

\* C27: the live graph is changed on the UI thread only: a step of a
\* streaming thread or of a worker thread adds or removes no sub-graph,
\* requests, links, unlinks or releases no tee pad and changes no state of a
\* sub-graph or of the pipeline.
C27_GraphChangedOnUiThreadOnly ==
  [][(StreamingThreadStep \/ WorkerThreadStep) =>
       UNCHANGED <<inPipeline, teePads, padPeer, binState, pipelineState>>]_vars

\* A failure is detected off the UI thread: the conversion closure of a
\* snapshot ends with a failure, or the closure that shuts a sub-graph down is
\* refused the state change.
OffThreadFailure ==
  \/ \E s \in Snaps : /\ snapState[s] = "converting"
                      /\ snapState'[s] \in {"conv_failed", "write_failed"}
  \/ (\E b \in Bins : removeAsync'[b] < removeAsync[b]) /\ faults' > faults

\* Texts of the application warnings.
WarningTexts ==
  {"Failed to convert sample", "Failed to write snapshot file", "Failed to stop recording"}

\* C28: a failure detected off the UI thread opens no dialog in the step that
\* detects it; it appends one application warning to the bus.  A dialog with
\* the text of a warning is opened only by the bus watch, on the UI thread,
\* for the message at the head of the bus, and the warnings shown so far are
\* the first of the warnings posted, in the same order.
C28_OffThreadFailuresViaBus ==
  /\ [](/\ Len(shown) <= Len(posted)
        /\ SubSeq(posted, 1, Len(shown)) = shown)
  /\ [][/\ OffThreadFailure =>
             /\ dialogs' = dialogs /\ running' = running
             /\ Len(bus') = Len(bus) + 1 /\ SubSeq(bus', 1, Len(bus)) = bus
             /\ bus'[Len(bus')].kind = "warning"
             /\ posted' = Append(posted, bus'[Len(bus')].text)
        /\ (Len(dialogs') > Len(dialogs) /\ dialogs'[Len(dialogs')].text \in WarningTexts) =>
             /\ uiPc = "idle" /\ bus # <<>> /\ Head(bus).kind = "warning"
             /\ bus' = Tail(bus)
             /\ dialogs' = Append(dialogs, Dialog(FALSE, Head(bus).text))
             /\ shown' = Append(shown, Head(bus).text)
             /\ ~OffThreadFailure]_vars

\* Two conversions failed in different ways; both warnings have been shown,
\* in the order in which they were posted.
C28_Witness ==
  /\ posted = <<"Failed to write snapshot file", "Failed to convert sample">>
  /\ shown = posted
  /\ bus = <<>>

\* C29: a forwarded EOS makes the bus watch queue the removal of a recording
\* sub-graph that has drained and posted it, and of nothing else: the display
\* sink stays in the pipeline and no removal of it is queued.
C29_ForwardedEosRemovesDrainedBranchOnly ==
  /\ displaySink = "in_pipeline" /\ sinkRemoveAsync = 0
  /\ \A b \in Bins : removeAsync[b] > 0 => eosState[b] = "posted" /\ b \in eosHandled

\* C30: the file of a snapshot exists only once its conversion has succeeded;
\* a conversion still running, failed or timed out has no file at the target
\* path.
C30_FileOnlyAfterConversion ==
  \A s \in Snaps :
    SnapshotFileExists(s) => snapState[s] \in {"written", "write_failed"}

\* The pending conversion closures whose write handle is open on path f.
Writers(f) == {s \in Snaps : snapState[s] = "converting" /\ snapPath[s] = <<f>>}

\* C31: a snapshot destination file has no concurrent writer: no two pending
\* conversion closures hold write handles for the same path (such as two
\* snapshots taken within one second), and a handle is written at most once,
\* after its own conversion: a snapshot that is no longer pending stays as it
\* is.
C31_NoConcurrentWriter ==
  /\ \A s, t \in Snaps :
       (s # t /\ snapState[s] = "converting" /\ snapState[t] = "converting")
         => snapPath[s] # snapPath[t]
  /\ \A s \in Snaps : snapPath[s] # <<>> => Cardinality(Writers(snapPath[s][1])) <= 1

\* C32: at most one countdown tick source is registered: a timeout source
\* exists exactly while App.timer is Some, and only while the snapshot toggle
\* is pressed, so a stop request and the tick that reaches zero have removed
\* it and no stale source is left to tick.
C32_AtMostOneTickSource ==
  /\ tickSources <= 1
  /\ tickSources = (IF timer THEN 1 ELSE 0)
  /\ tickSources > 0 => snapshotActive

\* A second countdown runs after an earlier one was stopped or ran out.
C32_Witness == presses = 2 /\ tickSources = 1 /\ timer /\ ticks > 0

\* The tee source pads requested by start_recording and not yet released (the
\* pad of the preview branch is not one of them).
RecordingPads == teePads \ {PreviewPad}

\* The recording sub-graphs whose sink pad is linked to a tee source pad.
LinkedBranches == {b \in Bins : \E p \in teePads : p # PreviewPad /\ padPeer[p] = b}

\* C33: outside the step of start_recording between get_request_pad and link,
\* the number of request source pads outstanding on the tee equals the number
\* of recording sub-graphs linked to it; in particular the pad requested by a
\* start_recording that failed at the link step has been released.
C33_TeePadsMatchBranches ==
  uiPc # "link" => Cardinality(RecordingPads) = Cardinality(LinkedBranches)

\* C34: in the App revision a stop request always finds an element named
\* record-bin in the pipeline, so expect("Pipeline had no recording bin")
\* never fails and the click handler never panics, also when the stop request
\* follows a start request that failed or was rejected.
C34_StopFindsRecordBin ==
  ~(uiPc = "panicked" /\ ~recordActive /\ RecordBin = None)

\* C35: whenever no callback is executing, the record toggle is pressed if
\* and only if a recording session exists (recording_bin is Some), whatever
\* toggle clicks, start failures, idle probes and end-of-stream deliveries
\* came before.
C35_TogglePressedIffSession ==
  (running /\ uiPc = "idle") => (recordActive <=> recording_bin # None)

\* A session exists with the toggle pressed after an earlier start failed
\* and left the toggle un-pressed.
C35_Witness ==
  /\ running /\ uiPc = "idle"
  /\ recordActive /\ recording_bin # None
  /\ \E b \in Bins : binState[b] \in {"Null", "Dropped"} /\ b \notin wasLinked

\* C36: whenever no callback is executing, the stored state of the stateful
\* actions "snapshot" and "record" equals the pressed state of the
\* corresponding toggle button, also after a handler un-pressed the toggle
\* from inside the change-state handler (snapshot with timer length 0, failed
\* start_recording).
C36_ActionStateIsToggleState ==
  (running /\ uiPc = "idle") =>
    /\ snapshotAction = snapshotActive
    /\ recordAction = recordActive

\* C37: whenever no callback is executing, the countdown label of the
\* overlay is visible if and only if a countdown timer exists (App.timer is
\* Some), whatever snapshot toggles, ticks and cancels came before.
C37_OverlayVisibleIffTimer ==
  (running /\ uiPc = "idle") => (overlayVisible <=> timer)

\* A countdown that has ticked shows its label, after an earlier countdown
\* was cancelled or ran out and hid it.
C37_Witness ==
  /\ running /\ uiPc = "idle"
  /\ overlayVisible /\ timer /\ ticks > 0 /\ presses = 2

\* C38: no sequence of toggle clicks, timer ticks, bus messages and the
\* re-entrant toggle and action callbacks they trigger borrows a RefCell
\* while a conflicting borrow of it is held: App.timer,
\* Pipeline.recording_bin and the App inner cell never raise a double-borrow
\* panic.
C38_NoDoubleBorrow == ~borrowError

\* The re-entrant case has happened: a countdown ran out with the toggle
\* pressed, so the timeout closure took the timer and then un-pressed the
\* toggle, which ran on_snapshot_state_changed(Idle) inside the closure.
C38_Witness ==
  /\ running /\ countLen > 0 /\ ticks = countLen /\ snapCalls > pressCalls
  /\ ~snapshotActive /\ ~timer /\ ~borrowError

\* C39: assert!(self.remaining > 0) in SnapshotTimer::tick holds at every
\* tick: while a tick source is registered a timer exists whose remaining
\* count is at least 1, the tick that brings it to 0 removes the timer, and
\* the counter is never decremented below 0.
C39_TickAssertionHolds ==
  /\ uiPc # "panicked"
  /\ remaining >= 0
  /\ tickSources > 0 => (timer /\ remaining >= 1)
  /\ timer => remaining >= 1

\* A countdown of at least two seconds has ticked down to zero and its
\* timer is gone.
C39_Witness ==
  /\ running /\ countLen >= 2 /\ ticks = countLen
  /\ ~timer /\ remaining = 0 /\ tickSources = 0 /\ snapCalls > pressCalls
====
